---------------------------- MODULE Spec2Model ----------------------------
(***************************************************************************)
(* A model of direct/src/p3d/Packager.py: the Packager, the Package under  *)
(* construction, its PackFiles, the requirement resolver and the close()   *)
(* pipeline (installMultifile / installSolo).                              *)
(*                                                                         *)
(* Conventions.                                                            *)
(*   - A filename is a record [dir, parts]: the directory and the basename *)
(*     split at its dots, so that Filename.getExtension, setExtension('')  *)
(*     and getBasename are computed and not assumed.                       *)
(*   - Python's None is the string "None"; a three-valued keyword argument *)
(*     is one of "None", "True", "False".                                  *)
(*   - The host is a posix platform (PandaSystem.getPlatform() = Platform).*)
(***************************************************************************)
EXTENDS Naturals, Integers, Sequences, FiniteSets, TLC

None == "None"

\* An empty name: what "not self.newName" is true of (None or the empty string).
NoName == [dir |-> "", parts |-> << >>]

----------------------------------------------------------------------------
(* Filenames *)

FN(d, p) == [dir |-> d, parts |-> p]

\* Filename.getExtension(): the text after the last dot of the basename.
getExtension(f) == IF Len(f.parts) >= 2 THEN f.parts[Len(f.parts)] ELSE ""

\* Filename.setExtension(''): drops the extension, if there is one.
stripExtension(f) ==
    IF Len(f.parts) >= 2 THEN FN(f.dir, SubSeq(f.parts, 1, Len(f.parts) - 1)) ELSE f

\* Filename.setExtension(e) for a non-empty e.
setExtension(f, e) ==
    IF Len(f.parts) >= 2
    THEN FN(f.dir, SubSeq(f.parts, 1, Len(f.parts) - 1) \o <<e>>)
    ELSE FN(f.dir, f.parts \o <<e>>)

\* Filename.getBasename(), as a filename with no directory.
getBasename(f) == FN("", f.parts)

\* Filename.isLocal(): a relative path.
LocalDirs == {"", "sub", "data", "data/deep", "deep", "imported_maps"}
isLocal(f) == f.dir \in LocalDirs

\* Filename.makeCanonical(): a relative path is made absolute against the
\* current directory (/cwd); an absolute one is unchanged.
CanonicalDir(d) ==
    CASE d = ""          -> "/cwd"
      [] d = "sub"       -> "/cwd/sub"
      [] d = "data"      -> "/cwd/data"
      [] d = "data/deep" -> "/cwd/data/deep"
      [] d = "deep"      -> "/cwd/deep"
      [] d = "imported_maps" -> "/cwd/imported_maps"
      [] OTHER           -> d

makeCanonical(f) == FN(CanonicalDir(f.dir), f.parts)

----------------------------------------------------------------------------
(* The environment: the running Panda3D and the files on disk *)

Platform       == "linux_amd64"     \* PandaSystem.getPlatform()
RuntimeVersion == "1.0"             \* PandaSystem.getPackageVersionString()
RuntimeHost    == "http://runtime"  \* PandaSystem.getPackageHostUrl()

\* Packager.__init__: the extension tables of a posix host.
executableExtensions       == {"so"}
extractExtensions          == executableExtensions
platformSpecificExtensions == executableExtensions
uncompressibleExtensions   == {"mp3", "ogg"}
imageExtensions            == {"png", "jpg"}
unprocessedExtensions      == {}
caseSensitive              == TRUE

\* Packager.__init__: excludeSystemFiles (basenames) and excludeSystemGlobs.
\* A glob is [pre, star, ext, open]: the basename's first part is pre (or
\* starts with pre, when a star follows it), a later part is ext when ext
\* is given, and parts after the extension are allowed only when the
\* pattern ends in a star (open).
excludeSystemFiles ==
    { <<"kernel32", "dll">>, <<"user32", "dll">>, <<"wsock32", "dll">>,
      <<"ws2_32", "dll">>, <<"advapi32", "dll">>, <<"opengl32", "dll">>,
      <<"glu32", "dll">>, <<"gdi32", "dll">>, <<"shell32", "dll">>,
      <<"ntdll", "dll">>, <<"ws2help", "dll">>, <<"rpcrt4", "dll">>,
      <<"imm32", "dll">>, <<"ddraw", "dll">>, <<"shlwapi", "dll">>,
      <<"secur32", "dll">>, <<"dciman32", "dll">>, <<"comdlg32", "dll">>,
      <<"comctl32", "dll">>, <<"ole32", "dll">>, <<"oleaut32", "dll">>,
      <<"gdiplus", "dll">>, <<"winmm", "dll">>,
      <<"libsystem", "b", "dylib">>, <<"libmathcommon", "a", "dylib">>,
      <<"libmx", "a", "dylib">>, <<"libstdc++", "6", "dylib">> }

Glob(pre, star, ext, open) == [pre |-> pre, star |-> star, ext |-> ext, open |-> open]

excludeSystemGlobs ==
    { Glob("d3dx9_", TRUE, "dll", FALSE),
      Glob("linux-gate", FALSE, "so", TRUE),
      Glob("libdl", FALSE, "so", TRUE),
      Glob("libm", FALSE, "so", TRUE),
      Glob("libc", FALSE, "so", TRUE),
      Glob("libGL", FALSE, "so", TRUE),
      Glob("libGLU", FALSE, "so", TRUE),
      Glob("libX", TRUE, "so", TRUE) }

\* The proper prefixes among the first parts the model uses.
StartsWithPairs == { <<"libX11", "libX">>, <<"d3dx9_42", "d3dx9_">> }
StartsWith(s, pre) == pre = "" \/ s = pre \/ <<s, pre>> \in StartsWithPairs

\* GlobPattern.matches(basename), for the pattern shapes above and for the
\* user patterns "*.ext" (pre = "", star) and "name.ext" (no star).  A star
\* matches dots too, so after a star the extension may be any later part.
GlobMatches(g, parts) ==
    /\ Len(parts) >= 1
    /\ IF g.star THEN StartsWith(parts[1], g.pre) ELSE parts[1] = g.pre
    /\ IF g.ext = "" THEN g.open \/ g.star \/ Len(parts) = 1
       ELSE \E k \in 2..Len(parts) :
               /\ parts[k] = g.ext
               /\ (g.star \/ k = 2)
               /\ (g.open \/ k = Len(parts))

\* The files that exist on disk (canonical names), an input of the run.
\* notes.txt stands for a file found by walking a directory; missing.txt is
\* named by a definition but does not exist.
ExistingFiles ==
    { FN("/cwd", <<"a", "prc">>),      FN("/cwd", <<"a", "pre">>),
      FN("/cwd", <<"b", "prc">>),      FN("/cwd", <<"readme", "txt">>),
      FN("/cwd", <<"notes", "txt">>),  FN("/cwd", <<"main", "py">>),
      FN("/cwd", <<"m", "bam">>),      FN("/cwd", <<"snd", "ogg", "pz">>),
      FN("/cwd/sub", <<"readme", "txt">>),
      FN("/cwd", <<"app", "so">>),     FN("/usr/lib", <<"libfoo", "so">>),
      FN("/usr/lib", <<"libbar", "so">>), FN("/usr/lib", <<"libc", "so", "6">>),
      FN("/tex", <<"t", "png">>),      FN("/tex2", <<"t", "png">>),
      FN("/tex", <<"a", "pre">>),
      FN("/cwd/data", <<"notes", "txt">>), FN("/cwd/data", <<"libc", "so", "6">>),
      FN("/cwd/data/deep", <<"low", "bam">>),
      FN("/cwd", <<"libpanda", "so">>),
      FN("/cwd", <<"frozen", "so">>),  FN("/cwd", <<"frozen">>),
      FN("/cwd", <<"tool">>) }

exists(f) == f \in ExistingFiles \/ makeCanonical(f) \in ExistingFiles

\* Packager.executablePath, after the environment's own directories.
executablePath == <<"/lib", "/usr/lib">>

\* Filename.resolveFilename(searchPath): a relative name found in a
\* directory of the path becomes that file; anything else is unchanged.
RECURSIVE resolveFrom(_, _, _)
resolveFrom(f, path, i) ==
    IF i > Len(path) THEN f
    ELSE IF FN(path[i], f.parts) \in ExistingFiles THEN FN(path[i], f.parts)
    ELSE resolveFrom(f, path, i + 1)

resolveFilename(f, path) == IF isLocal(f) THEN resolveFrom(f, path, 1) ELSE f

----------------------------------------------------------------------------
(* PackFile *)

TriToBool(t) == t = "True"

\* The keyword arguments of PackFile.__init__ / Package.addFile.
FileArgs(filename, newName, explicit) ==
    [ filename |-> filename, newName |-> newName, deleteTemp |-> FALSE,
      explicit |-> explicit, compress |-> None, extract |-> None,
      text |-> None, unprocessed |-> None, executable |-> None,
      platformSpecific |-> None ]

\* PackFile.__init__, lines 52-64: the target name defaults to the source
\* name, and a .pz extension is stripped from it.
PackFileNewName(a) ==
    LET n0 == IF a.newName = NoName THEN a.filename ELSE a.newName
    IN  IF getExtension(n0) = "pz" THEN stripExtension(n0) ELSE n0

\* A variant of the rule below that goes by the extension alone.
PackFileCompressByExtension(a) ==
    LET ext == getExtension(PackFileNewName(a))
    IN  IF a.compress # None THEN TriToBool(a.compress)
        ELSE ext \notin uncompressibleExtensions /\ ext \notin imageExtensions

\* PackFile.__init__, lines 63-68.
PackFileCompress(a) ==
    LET n0  == IF a.newName = NoName THEN a.filename ELSE a.newName
        ext == getExtension(PackFileNewName(a))
    IN  IF a.compress # None THEN TriToBool(a.compress)
        ELSE IF getExtension(n0) = "pz" THEN TRUE
        ELSE ext \notin uncompressibleExtensions /\ ext \notin imageExtensions

\* A variant of the rule below that does not look at the caller's value.
PackFileExecutableByExtension(a) ==
    getExtension(PackFileNewName(a)) \in executableExtensions

\* PackFile.__init__, lines 70-71.
PackFileExecutable(a) ==
    IF a.executable # None THEN TriToBool(a.executable)
    ELSE getExtension(PackFileNewName(a)) \in executableExtensions

\* PackFile.__init__, lines 81-89: the source name, resolved along the
\* executable path for an executable, then made canonical when the file
\* exists or the path is absolute.  (makeTrueCase changes nothing on a
\* case-sensitive file system.)
PackFileFilename(a) ==
    LET f1 == IF PackFileExecutable(a)
              THEN resolveFilename(a.filename, executablePath) ELSE a.filename
    IN  IF exists(f1) \/ ~isLocal(f1) THEN makeCanonical(f1) ELSE f1

\* PackFile.__init__: the object built from the arguments.
PackFile(a) ==
    LET ext  == getExtension(PackFileNewName(a))
        exe  == PackFileExecutable(a)
    IN  [ filename   |-> PackFileFilename(a),
          newName    |-> PackFileNewName(a),
          deleteTemp |-> a.deleteTemp,
          explicit   |-> a.explicit,
          compress   |-> PackFileCompress(a),
          extract    |-> IF a.extract # None THEN TriToBool(a.extract)
                         ELSE exe \/ ext \in extractExtensions,
          text       |-> a.text,
          unprocessed |-> IF a.unprocessed # None THEN TriToBool(a.unprocessed)
                          ELSE exe \/ ext \in unprocessedExtensions,
          executable |-> exe,
          platformSpecific |->
                         IF a.platformSpecific # None THEN TriToBool(a.platformSpecific)
                         ELSE exe \/ ext \in platformSpecificExtensions ]

\* ExcludeFilename: [localOnly, dir, glob].  A pattern with no directory is
\* matched against the basename of the file's source name; one with a
\* directory is made canonical and matched against the whole source path.
ExcludeFilename(dir, g) ==
    [ localOnly |-> dir = "",
      dir  |-> IF dir = "" THEN "" ELSE makeCanonical(FN(dir, <<"x">>)).dir,
      glob |-> g ]

ExcludeMatches(x, filename) ==
    IF x.localOnly THEN GlobMatches(x.glob, filename.parts)
    ELSE x.dir = filename.dir /\ GlobMatches(x.glob, filename.parts)

\* A variant of isExcluded in which an explicit file is treated like any
\* other: what C4 rules out.
isExcludedAlsoExplicit(file, skip, excluded, psc) ==
    \/ file.newName \in skip
    \/ file.newName.parts \in excludeSystemFiles
    \/ \E g \in excludeSystemGlobs : GlobMatches(g, file.newName.parts)
    \/ \E i \in 1..Len(excluded) : ExcludeMatches(excluded[i], file.filename)
    \/ file.platformSpecific /\ psc = "False"

\* PackFile.isExcluded(package), lines 91-125.  skip is the package's
\* skipFilenames, excluded its excludedFilenames and psc its
\* platformSpecificConfig.
isExcluded(file, skip, excluded, psc) ==
    \/ file.newName \in skip
    \/ /\ ~file.explicit
       /\ \/ file.newName.parts \in excludeSystemFiles
          \/ \E g \in excludeSystemGlobs : GlobMatches(g, file.newName.parts)
          \/ \E i \in 1..Len(excluded) : ExcludeMatches(excluded[i], file.filename)
          \/ file.platformSpecific /\ psc = "False"

----------------------------------------------------------------------------
(* The state *)

VARIABLES
    hasCurrent,       \* Packager.currentPackage is not None
    pkg,              \* the current Package's scalar attributes
    objs,             \* the PackFile objects the current package holds
    files,            \* Package.files: indices into objs, in list order
    sourceFilenames,  \* Package.sourceFilenames: source name -> object
    targetFilenames,  \* Package.targetFilenames: target name -> object
    excludedFilenames,\* Package.excludedFilenames
    requires,         \* Package.requires: Package objects (ids into pheap)
    skipFilenames,    \* Package.skipFilenames (its keys)
    skipModules,      \* Package.skipModules: module name -> definition
    modules,          \* Package.freezer.modules: module name -> definition
    pc,               \* where close() of the current package stands
    idx,              \* the position of the running "for file in self.files"
    multifile,        \* the subfiles added to Package.multifile
    components,       \* Package.components
    extracts,         \* Package.extracts
    moduleNames,      \* Package.moduleNames (its keys)
    pheap,            \* every Package object read from an import descriptor
    packages,         \* Packager.packages: key -> Package object
    packageList,      \* Packager.packageList (the packages built)
    contents,         \* Packager.contents: key -> PackageEntry
    contentsChanged,  \* Packager.contentsChanged
    disk,             \* the install directory: descriptors and archives
    settings,         \* what the caller set on the Packager before setup()
    notify,           \* the warnings the last operation logged
    err,              \* the exception the last operation raised, or None
    last              \* the last operation called, with its arguments

fileVars == <<objs, files, sourceFilenames, targetFilenames>>
reqVars  == <<requires, skipFilenames, skipModules>>
buildVars == <<pc, idx, multifile, components, extracts, moduleNames>>
packagerVars == <<pheap, packages, packageList, contents, contentsChanged, disk,
                  settings>>
vars == <<hasCurrent, pkg, fileVars, excludedFilenames, reqVars, modules,
          buildVars, packagerVars, notify, err, last>>

\* The file table of a package, as one value.
FileTable == [objs |-> objs, files |-> files, src |-> sourceFilenames,
              tgt |-> targetFilenames, warn |-> {}, raised |-> None]

\* isExcluded reads package.platformSpecificConfig, an attribute that only
\* close() sets (line 268): before that, reaching line 122 with a
\* platform-specific file raises AttributeError.  psc is "Unset" until then.
isExcludedRaises(file, skip, excluded, psc) ==
    /\ psc = "Unset"
    /\ file.newName \notin skip
    /\ ~file.explicit
    /\ file.newName.parts \notin excludeSystemFiles
    /\ \A g \in excludeSystemGlobs : ~GlobMatches(g, file.newName.parts)
    /\ \A i \in 1..Len(excluded) : ~ExcludeMatches(excluded[i], file.filename)
    /\ file.platformSpecific

\* A variant of addFile without the test of the source name: what C2
\* rules out.
addFileUnchecked(ft, a, skip, excluded, psc) ==
    LET file == PackFile(a) IN
    IF ft.raised # None THEN ft
    ELSE IF file.newName \in DOMAIN ft.tgt
    THEN [ft EXCEPT !.warn = @ \cup
             {[kind |-> "shadowing", file |-> file.filename,
               by |-> ft.objs[ft.tgt[file.newName]].filename]}]
    ELSE [ft EXCEPT !.objs = Append(ft.objs, file),
                    !.src  = (file.filename :> (Len(ft.objs) + 1)) @@ ft.src,
                    !.files = Append(ft.files, Len(ft.objs) + 1),
                    !.tgt   = ft.tgt @@ (file.newName :> (Len(ft.objs) + 1))]

\* A variant of addFile that takes a file whether it exists or not.
addFileAlsoMissing(ft, a, skip, excluded, psc) ==
    LET file == PackFile(a)
        o == Len(ft.objs) + 1
    IN  IF ft.raised # None \/ file.filename \in DOMAIN ft.src THEN ft
        ELSE IF file.newName \in DOMAIN ft.tgt
        THEN [ft EXCEPT !.warn = @ \cup
                 {[kind |-> "shadowing", file |-> file.filename,
                   by |-> ft.objs[ft.tgt[file.newName]].filename]}]
        ELSE [ft EXCEPT !.objs = Append(ft.objs, file),
                        !.src  = ft.src @@ (file.filename :> o),
                        !.files = Append(ft.files, o),
                        !.tgt   = ft.tgt @@ (file.newName :> o)]

\* Package.addFile(*args, **kw), lines 614-637, on a file table ft: the
\* table afterwards, with the warnings logged added to ft.warn.
addFile(ft, a, skip, excluded, psc) ==
    LET file == PackFile(a) IN
    IF ft.raised # None THEN ft
    ELSE IF file.filename \in DOMAIN ft.src
    THEN \* Don't bother, it's already here.
         ft
    ELSE IF file.newName \in DOMAIN ft.tgt
    THEN \* Another file is already in the same place.
         [ft EXCEPT !.warn = @ \cup
             {[kind |-> "shadowing", file |-> file.filename,
               by |-> ft.objs[ft.tgt[file.newName]].filename]}]
    ELSE LET o == Len(ft.objs) + 1
             known == [ft EXCEPT !.objs = Append(ft.objs, file),
                                 !.src  = ft.src @@ (file.filename :> o)]
         IN  IF file.text = None /\ ~exists(file.filename)
             THEN IF isExcludedRaises(file, skip, excluded, psc)
                  THEN [known EXCEPT !.raised = "AttributeError"]
                  ELSE IF ~isExcluded(file, skip, excluded, psc)
                  THEN [known EXCEPT !.warn = @ \cup
                           {[kind |-> "No such file", file |-> file.filename]}]
                  ELSE known
             ELSE [known EXCEPT !.files = Append(ft.files, o),
                                !.tgt   = ft.tgt @@ (file.newName :> o)]

----------------------------------------------------------------------------
(* Resolving requirements: findPackage and the import descriptors *)

\* A bound on the nesting of readImportDescFile -> findPackage: deeper
\* nesting is reported as the RuntimeError Python raises on runaway
\* recursion.
MaxDepth == 3

\* A <requires> element of a descriptor.
Req(name, platform, version, host) ==
    [name |-> name, platform |-> platform, version |-> version, host |-> host]

\* FreezeTool.Freezer.ModuleDef, as far as the Packager reads it.
ModuleDef(exclude, forbid, allowChildren, implicit, guess, fromSource) ==
    [exclude |-> exclude, forbid |-> forbid, allowChildren |-> allowChildren,
     implicit |-> implicit, guess |-> guess, fromSource |-> fromSource]

\* The resolver's state, as one value: the Package objects, the table
\* Packager.packages, and the exception raised, if any.
Resolver == [pheap |-> pheap, packages |-> packages, raised |-> None]

\* Packager.__findPackageInList, lines 1998-2004: the first package of the
\* list (of records) with the name, or the empty sequence.
RECURSIVE findPackageInList(_, _, _)
findPackageInList(packageName, list, i) ==
    IF i > Len(list) THEN << >>
    ELSE IF list[i].packageName = packageName THEN <<list[i]>>
    ELSE findPackageInList(packageName, list, i + 1)

Deref(heap, ids) == [i \in 1..Len(ids) |-> heap[ids[i]]]

\* Every candidate is taken as compatible.
packageIsValidAlways(heap, package, reqs, hasReqs) == TRUE

\* Packager.__packageIsValid, lines 1975-1996.  package is the candidate
\* (a record), reqs the list already required (ids), or None.
packageIsValid(heap, package, reqs, hasReqs) ==
    IF ~hasReqs \/ Len(reqs) = 0 THEN TRUE
    ELSE LET panda1 == findPackageInList("panda3d",
                           <<package>> \o Deref(heap, package.requires), 1)
             panda2 == findPackageInList("panda3d", Deref(heap, reqs), 1)
         IN  IF panda1 = << >> \/ panda2 = << >> THEN TRUE
             ELSE panda1[1].version = panda2[1].version

\* The descriptor files __scanPackageDir's glob matches, lines 1869-1895,
\* as keys <<name, version, platform>> of the install tree: the version
\* directory is a star when no version is asked for, and the platform
\* directory is there only when a platform is asked for.
ScanMatches(d, packageName, platform, version) ==
    { k \in DOMAIN d :
        /\ k[1] = packageName
        /\ IF platform # None
           THEN k[3] = platform /\ k[2] # None /\ (version = None \/ k[2] = version)
           ELSE IF version # None
           THEN k[3] = None /\ k[2] = version
           ELSE (k[2] # None /\ k[3] = None) \/ (k[2] = None /\ k[3] # None) }

\* The matches in the order the directory lists them: ord is that order,
\* a sequence of keys, an input of the call.
RECURSIVE ListIn(_, _, _)
ListIn(ord, S, i) ==
    IF i > Len(ord) THEN << >>
    ELSE (IF ord[i] \in S THEN <<ord[i]>> ELSE << >>) \o ListIn(ord, S, i + 1)

RECURSIVE findPackage(_, _, _, _, _, _, _, _, _, _)
RECURSIVE scanPackageDir(_, _, _, _, _, _, _, _, _)
RECURSIVE readCandidates(_, _, _, _, _, _)
RECURSIVE readImportDescFile(_, _, _, _, _, _, _, _)

\* Package.readImportDescFile, lines 1086-1127: the Package object read
\* from the descriptor desc, with the requirements resolved (got).
descPackage(desc, got) ==
    [packageName |-> desc.name, platform |-> desc.platform,
     version |-> desc.version, host |-> desc.host,
     requires |-> got,
     targetFilenames |-> desc.components,
     moduleNames |-> desc.modules]

\* Package.readImportDescFile, lines 1101-1106: the package findPackage
\* gave (res) joins the requirements read, when there is one.
RECURSIVE readRequired(_, _, _, _, _, _, _)
readRequired(res, d, ord, desc, i, got, depth) ==
    readImportDescFile(res.r, d, ord, desc, i + 1,
                       IF res.found THEN Append(got, res.id) ELSE got, depth, 0)

\* Package.readImportDescFile, lines 1075-1129, on the descriptor desc:
\* the <requires> elements from position i on are resolved one by one, each
\* against the packages resolved so far (got).  Gives [r, package].
readImportDescFile(r, d, ord, desc, i, got, depth, dummy) ==
    IF r.raised # None \/ i > Len(desc.requires)
    THEN [r |-> r, package |-> descPackage(desc, got)]
    ELSE readRequired(
             findPackage(r, d, ord, desc.requires[i].name,
                         desc.requires[i].platform, desc.requires[i].version,
                         desc.requires[i].host, got, TRUE, depth + 1),
             d, ord, desc, i, got, depth)

\* __scanPackageDir, line 1900: packages.append(package).
consCandidate(package, rest) ==
    [r |-> rest.r, list |-> <<package>> \o rest.list]

\* __scanPackageDir, lines 1897-1900: every matching file is read, in
\* listing order.  Gives [r, list] with the Package records read; one is
\* what reading file i gave.
RECURSIVE readOthers(_, _, _, _, _, _)
readOthers(one, d, ord, filelist, i, depth) ==
    consCandidate(one.package,
                  readCandidates(one.r, d, ord, filelist, i + 1, depth))

readCandidates(r, d, ord, filelist, i, depth) ==
    IF r.raised # None \/ i > Len(filelist) THEN [r |-> r, list |-> << >>]
    ELSE readOthers(
             readImportDescFile(r, d, ord, d[filelist[i]], 1, << >>, depth, 0),
             d, ord, filelist, i, depth)

\* Version strings are spelled out character by character where the code
\* scans them.  ord() of the characters used, and string.digits.
Ord == ("." :> 46) @@ ("0" :> 48) @@ ("1" :> 49) @@ ("2" :> 50) @@
       ("9" :> 57) @@ ("a" :> 97)
Digits == ("0" :> 0) @@ ("1" :> 1) @@ ("2" :> 2) @@ ("9" :> 9)

\* The spelling of the version strings of the install tree.
Spelling ==
    ("1.0" :> <<"1", ".", "0">>) @@ ("0.9" :> <<"0", ".", "9">>) @@
    ("1.10" :> <<"1", ".", "1", "0">>)

\* The value of the first digit of a string of digits.
toIntLexical(w) == IF Len(w) = 0 THEN 0 ELSE Digits[w[1]]

\* int(w), line 1971, of a string of digits.
RECURSIVE toInt(_)
toInt(w) ==
    IF Len(w) = 0 THEN 0
    ELSE 10 * toInt(SubSeq(w, 1, Len(w) - 1)) + Digits[w[Len(w)]]

\* __makeVersionTuple, lines 1958-1963 and 1965-1969: the end of the run
\* of non-digits, or of digits, that starts at p (one past its last
\* character).
RECURSIVE runEnd(_, _, _)
runEnd(version, p, digits) ==
    IF p <= Len(version) /\ ((version[p] \in DOMAIN Digits) = digits)
    THEN runEnd(version, p + 1, digits)
    ELSE p

strWord(w) == [isInt |-> FALSE, str |-> w, int |-> 0]
intWord(n) == [isInt |-> TRUE, str |-> << >>, int |-> n]

\* Packager.__makeVersionTuple, lines 1950-1973, from position p on: a
\* word for the non-digits (empty, if there are none) and, when digits
\* follow, a word for their value.
RECURSIVE makeVersionWords(_, _)
makeVersionWords(version, p) ==
    IF p > Len(version) THEN << >>
    ELSE LET q == runEnd(version, p, FALSE)
             e == runEnd(version, q, TRUE)
         IN  <<strWord(SubSeq(version, p, q - 1))>>
             \o (IF e > q THEN <<intWord(toInt(SubSeq(version, q, e - 1)))>>
                 ELSE << >>)
             \o makeVersionWords(version, e)

makeVersionTuple(version) == makeVersionWords(version, 1)

\* cmp() of two strings, as Python compares them: character by character
\* by ord(), a proper prefix being the smaller.
RECURSIVE cmpStr(_, _, _)
cmpStr(a, b, i) ==
    IF i > Len(a) /\ i > Len(b) THEN 0
    ELSE IF i > Len(a) THEN -1
    ELSE IF i > Len(b) THEN 1
    ELSE IF Ord[a[i]] < Ord[b[i]] THEN -1
    ELSE IF Ord[a[i]] > Ord[b[i]] THEN 1
    ELSE cmpStr(a, b, i + 1)

\* cmp() of two words of a version tuple: numbers by value, strings as
\* strings, and a number before any string.
cmpWord(x, y) ==
    IF x.isInt /\ y.isInt
    THEN (IF x.int < y.int THEN -1 ELSE IF x.int > y.int THEN 1 ELSE 0)
    ELSE IF x.isInt THEN -1
    ELSE IF y.isInt THEN 1
    ELSE cmpStr(x.str, y.str, 1)

\* cmp() of two tuples, which tuples.sort() of line 1946 goes by: the
\* first pair of words that differ decides, and a proper prefix is the
\* smaller.
RECURSIVE cmpTuple(_, _, _)
cmpTuple(s, t, i) ==
    IF i > Len(s) /\ i > Len(t) THEN 0
    ELSE IF i > Len(s) THEN -1
    ELSE IF i > Len(t) THEN 1
    ELSE IF cmpWord(s[i], t[i]) # 0 THEN cmpWord(s[i], t[i])
    ELSE cmpTuple(s, t, i + 1)

\* The order of two spelled versions under the version tuples.
cmpVersion(a, b) == cmpTuple(makeVersionTuple(a), makeVersionTuple(b), 1)

\* __sortImportPackages, lines 1937-1948: the sorted list is built and
\* returned, but the caller (line 1902) drops the result, so the list the
\* caller goes on with is the one it had.
sortImportPackages(list) == list

\* __makeVersionTuple(package.version), line 1944, takes len() of the
\* version: a candidate whose descriptor has no version raises TypeError.
sortRaises(list) == \E i \in 1..Len(list) : list[i].version = None

\* __scanPackageDir, lines 1903-1905: the first package of the list that
\* __packageIsValid accepts (its position, or 0).
FirstValid(heap, list, reqs, hasReqs) ==
    LET ok == { i \in 1..Len(list) : packageIsValid(heap, list[i], reqs, hasReqs) }
    IN  IF ok = {} THEN 0 ELSE CHOOSE i \in ok : \A j \in ok : i <= j

\* __scanPackageDir, lines 1902-1907, on the packages read.
chooseCandidate(read, reqs, hasReqs) ==
    LET list == sortImportPackages(read.list)
        k    == FirstValid(read.r.pheap, list, reqs, hasReqs)
    IN  IF read.r.raised # None THEN [r |-> read.r, found |-> FALSE, package |-> << >>]
        ELSE IF sortRaises(read.list)
        THEN [r |-> [read.r EXCEPT !.raised = "TypeError"], found |-> FALSE,
              package |-> << >>]
        ELSE IF k = 0 THEN [r |-> read.r, found |-> FALSE, package |-> << >>]
        ELSE [r |-> read.r, found |-> TRUE, package |-> <<list[k]>>]

\* Packager.__scanPackageDir, lines 1857-1907.  Gives [r, found, package].
scanPackageDir(r, d, ord, packageName, platform, version, reqs, hasReqs, depth) ==
    chooseCandidate(
        readCandidates(r, d, ord,
                       ListIn(ord, ScanMatches(d, packageName, platform, version), 1),
                       1, depth),
        reqs, hasReqs)

\* Packager.findPackage, lines 1847-1853: the package found (s2) is
\* looked up in Packager.packages by its own key, entered there if it is
\* new, and entered under the key asked for.
registerPackage(s2, key) ==
    IF ~s2.found THEN [r |-> s2.r, found |-> FALSE, id |-> 0]
    ELSE LET p    == s2.package[1]
             ckey == <<p.packageName, p.platform, p.version, p.host>>
             have == ckey \in DOMAIN s2.r.packages
             id   == IF have THEN s2.r.packages[ckey]
                     ELSE Len(s2.r.pheap) + 1
             heap == IF have THEN s2.r.pheap ELSE Append(s2.r.pheap, p)
             tab  == [k \in (DOMAIN s2.r.packages) \cup {ckey, key} |->
                        IF k = key \/ k = ckey THEN id
                        ELSE s2.r.packages[k]]
         IN  [r |-> [s2.r EXCEPT !.pheap = heap, !.packages = tab],
              found |-> TRUE, id |-> id]

\* Packager.findPackage, lines 1835-1845: when the scan for the platform
\* (s1) found nothing, the platform-independent directories are scanned.
RECURSIVE scanAgain(_, _, _, _, _, _, _, _, _)
scanAgain(s1, d, ord, packageName, version, reqs, hasReqs, depth, key) ==
    IF s1.found \/ s1.r.raised # None THEN registerPackage(s1, key)
    ELSE registerPackage(
             scanPackageDir(s1.r, d, ord, packageName, None, version,
                            reqs, hasReqs, depth),
             key)

\* Packager.findPackage, lines 1815-1855.  Gives [r, found, id]: the
\* resolver afterwards and the Package object returned, if any.  The search
\* path holds the install directory; no application runner is present, so
\* __findPackageOnHost gives None (lines 1910-1917).
findPackage(r, d, ord, packageName, platform0, version, host, reqs, hasReqs, depth) ==
    LET platform == IF platform0 = None THEN Platform ELSE platform0
        key      == <<packageName, platform, version, host>>
    IN  IF r.raised # None THEN [r |-> r, found |-> FALSE, id |-> 0]
        ELSE IF depth > MaxDepth
        THEN [r |-> [r EXCEPT !.raised = "RuntimeError"], found |-> FALSE, id |-> 0]
        ELSE IF key \in DOMAIN r.packages
        THEN [r |-> r, found |-> TRUE, id |-> r.packages[key]]
        ELSE scanAgain(
                 scanPackageDir(r, d, ord, packageName, platform, version,
                                reqs, hasReqs, depth),
                 d, ord, packageName, version, reqs, hasReqs, depth, key)

----------------------------------------------------------------------------
(* The install directory at the start of a run *)

Desc(name, platform, version, host, reqs, comps, mods) ==
    [name |-> name, platform |-> platform, version |-> version, host |-> host,
     requires |-> reqs, components |-> comps, modules |-> mods]

PlainModule == ModuleDef(FALSE, FALSE, FALSE, FALSE, FALSE, None)

\* What earlier runs left under the install directory, as
\* <<name, version, platform>> -> import descriptor: two versions of
\* panda3d; "base", rebuilt to require panda3d after "ext" was built
\* against the earlier, requirement-free build of it (so the descriptor of
\* ext lists base alone); "old", of which version 1.0 was built against
\* panda3d 0.9 and version 1.10 against panda3d 1.0.
InitialImports ==
    (<<"panda3d", "1.0", Platform>> :>
        Desc("panda3d", Platform, "1.0", RuntimeHost, << >>,
             {FN("", <<"libpanda", "so">>)}, ("panda3d" :> PlainModule)))
    @@
    (<<"panda3d", "0.9", Platform>> :>
        Desc("panda3d", Platform, "0.9", RuntimeHost, << >>,
             {FN("", <<"libpanda", "so">>)}, ("panda3d" :> PlainModule)))
    @@
    (<<"base", "1.0", None>> :>
        Desc("base", None, "1.0", RuntimeHost,
             <<Req("panda3d", None, "1.0", RuntimeHost)>>,
             {FN("", <<"readme", "txt">>)},
             ("foo" :> PlainModule)))
    @@
    (<<"ext", "1.0", None>> :>
        Desc("ext", None, "1.0", RuntimeHost,
             <<Req("base", None, "1.0", RuntimeHost)>>,
             {FN("", <<"libfoo", "so">>)},
             ("bar" :> ModuleDef(TRUE, TRUE, FALSE, FALSE, FALSE, None))))
    @@
    (<<"old", "1.0", None>> :>
        Desc("old", None, "1.0", RuntimeHost,
             <<Req("panda3d", None, "0.9", RuntimeHost)>>,
             {}, << >>))
    @@
    (<<"old", "1.10", None>> :>
        Desc("old", None, "1.10", RuntimeHost,
             <<Req("panda3d", None, "1.0", RuntimeHost)>>,
             {}, << >>))

\* The order in which a directory listing (glob) gives the descriptors: a
\* property of the file system, taken either way round.
AllKeys == << <<"panda3d", "0.9", Platform>>, <<"panda3d", "1.0", Platform>>,
              <<"base", "1.0", None>>, <<"ext", "1.0", None>>,
              <<"old", "1.0", None>>, <<"old", "1.10", None>>,
              <<"app", None, None>>, <<"app", "1.0", None>>, <<"app", "0.9", None>>,
              <<"app", None, Platform>>, <<"app", "1.0", Platform>>,
              <<"app", "0.9", Platform>>,
              <<"lib", None, None>>, <<"lib", "1.0", None>>, <<"lib", "0.9", None>>,
              <<"lib", None, Platform>>, <<"lib", "1.0", Platform>>,
              <<"lib", "0.9", Platform>>,
              <<"panda3d", None, None>>, <<"panda3d", "1.0", None>>,
              <<"panda3d", "0.9", None>>, <<"panda3d", None, Platform>> >>

Reverse(q) == [i \in 1..Len(q) |-> q[Len(q) + 1 - i]]
ListingOrders == {AllKeys, Reverse(AllKeys)}

----------------------------------------------------------------------------
(* Packager.__init__ and setup() *)

NoMain == << >>

\* Package.__init__, lines 216-252 (with the flags beginPackage sets).
NewPackage(packageName, p3dApplication, solo) ==
    [ packageName |-> packageName, platform |-> None, version |-> None,
      host |-> None, p3dApplication |-> p3dApplication, solo |-> solo,
      compressionLevel |-> 0, mainModule |-> NoMain, configs |-> << >>,
      platformSpecificConfig |-> "Unset" ]

\* Packager.host, prcEncryptionKey and prcSignCommand as the caller may
\* set them (lines 1434, 1461, 1462).  A sign command is modelled by
\* whether it succeeds.
Settings(host, key, sign) ==
    [host |-> host, prcEncryptionKey |-> key, prcSignCommand |-> sign]

SettingsChoices ==
    { Settings(RuntimeHost, None, None),
      Settings(RuntimeHost, "key", "sign-ok"),
      Settings("http://other", None, "sign-fails") }

\* FileSpec.fromFile, called at lines 165 and 171: the name of a file of
\* the install directory with what the file is at the time (its size,
\* timestamp and hash, here: of which run it is).
FileSpec(filename, stamp) == [filename |-> filename, stamp |-> stamp]

\* PackageEntry.fromFile, lines 158-171.  importDescFile is a sequence of
\* one filename, or of none where the code passes None (a solo package).
PackageEntry(packageName, platform, version, solo, descFile, importDescFile) ==
    [packageName |-> packageName, platform |-> platform, version |-> version,
     solo |-> solo, descFile |-> FileSpec(descFile, "now"),
     importDescFile |-> [i \in 1..Len(importDescFile) |->
                           FileSpec(importDescFile[i], "now")]]

\* The key is the name alone.
getKeyByName(pe) == <<pe.packageName, None, None>>

\* PackageEntry.getKey, lines 153-156.
getKey(pe) == <<pe.packageName, pe.platform, pe.version>>

\* PackageEntry.makeXml, lines 190-208: the <package> element, whose
\* platform, version and solo attributes are set only when true.
makeXml(pe) ==
    [name |-> pe.packageName,
     platform |-> IF pe.platform # None /\ pe.platform # "" THEN <<pe.platform>>
                  ELSE << >>,
     version |-> IF pe.version # None /\ pe.version # "" THEN <<pe.version>>
                 ELSE << >>,
     solo |-> IF pe.solo THEN <<"1">> ELSE << >>,
     descFile |-> pe.descFile,
     import |-> pe.importDescFile]

\* PackageEntry.loadXml, lines 173-187: an absent attribute reads as None.
loadXml(xpackage) ==
    [packageName |-> xpackage.name,
     platform |-> IF xpackage.platform = << >> THEN None ELSE xpackage.platform[1],
     version |-> IF xpackage.version = << >> THEN None ELSE xpackage.version[1],
     solo |-> xpackage.solo = <<"1">>,
     descFile |-> xpackage.descFile,
     importDescFile |-> xpackage.import]

\* contents.xml: whether it is there, whether this run saved it, and its
\* <package> elements.  writeContentsFile writes one element per key, so
\* their order in the document is left out.
ContentsFile(exists0, saved, xpackages) ==
    [exists |-> exists0, saved |-> saved, packages |-> xpackages]

\* Packager.readContentsFile, lines 2379-2402: the entries by key.
readContentsFile(file) ==
    IF ~file.exists THEN << >>
    ELSE [ k \in { getKey(loadXml(x)) : x \in file.packages } |->
             loadXml(CHOOSE x \in file.packages : getKey(loadXml(x)) = k) ]

\* Packager.writeContentsFile, lines 2412-2428: the document saved.
savedContentsFile(entries) ==
    ContentsFile(TRUE, TRUE, { makeXml(entries[k]) : k \in DOMAIN entries })

\* The contents.xml an earlier run left: "lib" for no platform, and
\* "tools".
PriorContents ==
    ContentsFile(TRUE, FALSE,
      { [name |-> "lib", platform |-> << >>, version |-> << >>, solo |-> << >>,
         descFile |-> FileSpec([dir |-> <<"lib">>, base |-> <<"lib", "xml">>],
                               "earlier"),
         import |-> <<FileSpec([dir |-> <<"lib">>,
                                base |-> <<"lib", "import", "xml">>], "earlier")>>],
        [name |-> "tools", platform |-> <<Platform>>, version |-> <<"1.0">>,
         solo |-> <<"1">>,
         descFile |-> FileSpec([dir |-> <<"tools", Platform, "1.0">>,
                                base |-> <<"tools", "so">>], "earlier"),
         import |-> << >>] })

\* Descriptors an earlier run may have left in the install directory: one
\* of "lib" for no platform, which a patch tool has since given two
\* patches and a patch_version, and one of "lib" for this platform that
\* does not load.
PriorDescs ==
    ([dir |-> <<"lib">>, base |-> <<"lib", "xml">>] :>
        [readable |-> TRUE, patch_version |-> "3", last_patch_version |-> "2",
         patches |-> <<"patch1", "patch2">>, requires |-> << >>,
         extracts |-> {},
         uncompressed_archive |-> <<[dir |-> <<"lib">>, base |-> <<"lib", "mf">>]>>,
         compressed_archive |->
             <<[dir |-> <<"lib">>, base |-> <<"lib", "mf", "pz">>]>>])
    @@
    ([dir |-> <<"lib", Platform>>, base |-> <<"lib", Platform, "xml">>] :>
        [readable |-> FALSE, patch_version |-> "5", last_patch_version |-> "4",
         patches |-> <<"patch9">>, requires |-> << >>, extracts |-> {},
         uncompressed_archive |-> << >>, compressed_archive |-> << >>])

\* The install directory is fresh, or an earlier run has left its
\* descriptors and its contents.xml there.
FreshInstall == [descs |-> << >>, contentsFile |-> ContentsFile(FALSE, FALSE, {})]
UsedInstall  == [descs |-> PriorDescs, contentsFile |-> PriorContents]
InstallDirs  == {FreshInstall, UsedInstall}

\* Everything the constructor and setup() set.
InitState ==
    /\ settings \in SettingsChoices
    /\ hasCurrent = FALSE
    /\ pkg = NewPackage("", FALSE, FALSE)
    /\ objs = << >>
    /\ files = << >>
    /\ sourceFilenames = << >>
    /\ targetFilenames = << >>
    /\ excludedFilenames = << >>
    /\ requires = << >>
    /\ skipFilenames = {}
    /\ skipModules = << >>
    /\ modules = << >>
    /\ pc = "idle"
    /\ idx = 0
    /\ multifile = << >>
    /\ components = << >>
    /\ extracts = << >>
    /\ moduleNames = {}
    /\ pheap = << >>
    /\ packages = << >>
    /\ packageList = << >>
    /\ \E prior \in InstallDirs :
          disk = [imports |-> InitialImports, archives |-> << >>,
                  executable |-> {},
                  descs |-> prior.descs, contentsFile |-> prior.contentsFile]
    /\ contents = readContentsFile(disk.contentsFile)
    /\ contentsChanged = FALSE
    /\ notify = {}
    /\ err = None

Init == InitState /\ last = [op |-> "setup"]

----------------------------------------------------------------------------
(* Directives *)

\* A directive runs when no other operation is under way; an exception
\* ends the run of the definition file.
Idle == pc = "idle" /\ err = None

\* A variant of beginPackage that opens the new package whether or not one
\* is open.
beginPackageReplacing(packageName, p3dApplication, solo) ==
    /\ Idle
    /\ last' = [op |-> "beginPackage", packageName |-> packageName]
    /\ notify' = {}
    /\ err' = None
    /\ hasCurrent' = TRUE
    /\ pkg' = NewPackage(packageName, p3dApplication, solo)
    /\ objs' = << >>
    /\ files' = << >>
    /\ sourceFilenames' = << >>
    /\ targetFilenames' = << >>
    /\ excludedFilenames' = << >>
    /\ requires' = << >>
    /\ skipFilenames' = {}
    /\ skipModules' = << >>
    /\ modules' = << >>
    /\ multifile' = << >>
    /\ components' = << >>
    /\ extracts' = << >>
    /\ moduleNames' = {}
    /\ UNCHANGED <<pc, idx, packagerVars>>

\* Packager.beginPackage, lines 1784-1797.
beginPackage(packageName, p3dApplication, solo) ==
    /\ Idle
    /\ last' = [op |-> "beginPackage", packageName |-> packageName]
    /\ notify' = {}
    /\ IF hasCurrent
       THEN /\ err' = "PackagerError"
            /\ UNCHANGED <<hasCurrent, pkg, fileVars, excludedFilenames, reqVars,
                           modules, buildVars, packagerVars>>
       ELSE /\ err' = None
            /\ hasCurrent' = TRUE
            /\ pkg' = NewPackage(packageName, p3dApplication, solo)
            /\ objs' = << >>
            /\ files' = << >>
            /\ sourceFilenames' = << >>
            /\ targetFilenames' = << >>
            /\ excludedFilenames' = << >>
            /\ requires' = << >>
            /\ skipFilenames' = {}
            /\ skipModules' = << >>
            /\ modules' = << >>
            /\ multifile' = << >>
            /\ components' = << >>
            /\ extracts' = << >>
            /\ moduleNames' = {}
            /\ UNCHANGED <<pc, idx, packagerVars>>

\* A variant of the exit below that opens a package all the same.
OutsideOfPackageOpening ==
    /\ err' = "OutsideOfPackageError"
    /\ notify' = {}
    /\ hasCurrent' = TRUE
    /\ pkg' = NewPackage("", FALSE, FALSE)
    /\ UNCHANGED <<fileVars, excludedFilenames, reqVars, modules,
                   buildVars, packagerVars>>

\* What every directive does when no package is open (raise
\* OutsideOfPackageError), e.g. lines 2023-2024.
OutsideOfPackage ==
    /\ err' = "OutsideOfPackageError"
    /\ notify' = {}
    /\ UNCHANGED <<hasCurrent, pkg, fileVars, excludedFilenames, reqVars, modules,
                   buildVars, packagerVars>>

\* Packager.do_config(**kw), lines 2016-2027.  kw maps keywords to values.
do_config(kw) ==
    /\ Idle
    /\ last' = [op |-> "config", kw |-> kw]
    /\ IF ~hasCurrent THEN OutsideOfPackage
       ELSE /\ pkg' = [pkg EXCEPT !.configs = kw @@ pkg.configs]
            /\ err' = None
            /\ notify' = {}
            /\ UNCHANGED <<hasCurrent, fileVars, excludedFilenames, reqVars, modules,
                           buildVars, packagerVars>>

\* Packager.do_exclude(filename), lines 2310-2320, and Package.excludeFile,
\* lines 639-643.  The pattern is a directory (or "") and a glob.
do_exclude(dir, g) ==
    /\ Idle
    /\ last' = [op |-> "exclude", dir |-> dir, glob |-> g]
    /\ IF ~hasCurrent THEN OutsideOfPackage
       ELSE /\ excludedFilenames' = Append(excludedFilenames, ExcludeFilename(dir, g))
            /\ err' = None
            /\ notify' = {}
            /\ UNCHANGED <<hasCurrent, pkg, fileVars, reqVars, modules,
                           buildVars, packagerVars>>

\* Freezer.addModule(moduleName, newName = ..., implicit = ...): the module
\* is entered in the table under its new name.
freezerAddModule(mods, newName, implicit) ==
    (newName :> ModuleDef(FALSE, FALSE, FALSE, implicit, FALSE, None)) @@ mods

\* Freezer.excludeModule(moduleName, forbid, allowChildren, fromSource).
freezerExcludeModule(mods, moduleName, forbid, allowChildren, fromSource) ==
    (moduleName :> ModuleDef(TRUE, forbid, allowChildren, FALSE, FALSE, fromSource))
        @@ mods

\* Packager.do_module(*args), lines 2092-2099, for one module name.
do_module(moduleName) ==
    /\ Idle
    /\ last' = [op |-> "module", moduleName |-> moduleName]
    /\ IF ~hasCurrent THEN OutsideOfPackage
       ELSE /\ modules' = freezerAddModule(modules, moduleName, FALSE)
            /\ err' = None
            /\ notify' = {}
            /\ UNCHANGED <<hasCurrent, pkg, fileVars, excludedFilenames, reqVars,
                           buildVars, packagerVars>>

\* Packager.do_renameModule(moduleName, newName), lines 2101-2108.
do_renameModule(moduleName, newName) ==
    /\ Idle
    /\ last' = [op |-> "renameModule", moduleName |-> moduleName,
                newName |-> newName]
    /\ IF ~hasCurrent THEN OutsideOfPackage
       ELSE /\ modules' = freezerAddModule(modules, newName, FALSE)
            /\ err' = None
            /\ notify' = {}
            /\ UNCHANGED <<hasCurrent, pkg, fileVars, excludedFilenames, reqVars,
                           buildVars, packagerVars>>

\* Packager.do_excludeModule(*args), lines 2110-2117, for one module name.
do_excludeModule(moduleName) ==
    /\ Idle
    /\ last' = [op |-> "excludeModule", moduleName |-> moduleName]
    /\ IF ~hasCurrent THEN OutsideOfPackage
       ELSE /\ modules' = freezerExcludeModule(modules, moduleName, FALSE, FALSE, None)
            /\ err' = None
            /\ notify' = {}
            /\ UNCHANGED <<hasCurrent, pkg, fileVars, excludedFilenames, reqVars,
                           buildVars, packagerVars>>

\* Packager.do_mainModule(moduleName), lines 2119-2140, with no newName
\* and no filename.
do_mainModule(moduleName) ==
    /\ Idle
    /\ last' = [op |-> "mainModule", moduleName |-> moduleName]
    /\ IF ~hasCurrent THEN OutsideOfPackage
       ELSE /\ pkg' = [pkg EXCEPT !.mainModule = <<moduleName, moduleName>>]
            /\ err' = None
            /\ notify' = IF pkg.mainModule # NoMain /\ pkg.mainModule[1] # moduleName
                         THEN {[kind |-> "Replacing mainModule"]} ELSE {}
            /\ UNCHANGED <<hasCurrent, fileVars, excludedFilenames, reqVars, modules,
                           buildVars, packagerVars>>

\* Packager.remapExtensions on a posix host, lines 1526-1531; "-" stands
\* for "not remapped".
remapExtension(ext) ==
    CASE ext = "dll" -> "so"
      [] ext = "pyd" -> "so"
      [] ext = "exe" -> ""
      [] OTHER       -> "-"

\* The order in which glob.glob and a directory scan list files.
FileOrder ==
    << FN("/cwd", <<"a", "prc">>), FN("/cwd", <<"a", "pre">>),
       FN("/cwd", <<"b", "prc">>), FN("/cwd", <<"readme", "txt">>),
       FN("/cwd", <<"notes", "txt">>), FN("/cwd", <<"main", "py">>),
       FN("/cwd", <<"m", "bam">>), FN("/cwd", <<"snd", "ogg", "pz">>),
       FN("/cwd/sub", <<"readme", "txt">>), FN("/cwd", <<"app", "so">>),
       FN("/usr/lib", <<"libfoo", "so">>), FN("/usr/lib", <<"libbar", "so">>),
       FN("/usr/lib", <<"libc", "so", "6">>), FN("/tex", <<"t", "png">>),
       FN("/tex2", <<"t", "png">>), FN("/tex", <<"a", "pre">>),
       FN("/cwd/data", <<"notes", "txt">>), FN("/cwd/data", <<"libc", "so", "6">>),
       FN("/cwd/data/deep", <<"low", "bam">>),
       FN("/cwd", <<"libpanda", "so">>), FN("/cwd", <<"tool">>) >>

\* glob.glob(filename): the existing files the pattern matches, spelled
\* with the pattern's directory.  A pattern is a name whose first part may
\* be a star.
RECURSIVE globFrom(_, _)
globFrom(f, i) ==
    IF i > Len(FileOrder) THEN << >>
    ELSE LET e == FileOrder[i]
             hit == /\ e.dir = CanonicalDir(f.dir)
                    /\ Len(e.parts) = Len(f.parts)
                    /\ \A k \in 1..Len(f.parts) :
                          f.parts[k] = e.parts[k] \/ (k = 1 /\ f.parts[k] = "*")
         IN  (IF hit THEN <<FN(f.dir, e.parts)>> ELSE << >>) \o globFrom(f, i + 1)

glob(f) == globFrom(f, 1)

\* The arguments of Packager.addFiles.
FilesCall(filenames, text, newName, newDir, extract, executable, literal) ==
    [ filenames |-> filenames, text |-> text, newName |-> newName,
      newDir |-> newDir, extract |-> extract, executable |-> executable,
      deleteTemp |-> FALSE, literal |-> literal ]

\* Packager.addFiles, lines 2251-2278: the first loop, from filename i on.
\* acc is [files, explicit, executable].
RECURSIVE expandFilenames(_, _, _)
expandFilenames(c, i, acc) ==
    IF i > Len(c.filenames) THEN acc
    ELSE LET filename == c.filenames[i]
             ext      == getExtension(filename)
             exe      == IF ~c.literal /\ acc.executable = None /\ ext = "exe"
                         THEN "True" ELSE acc.executable
             newExt   == remapExtension(ext)
             renamed  == IF newExt = "-" THEN filename
                         ELSE IF newExt = "" THEN stripExtension(filename)
                         ELSE setExtension(filename, newExt)
             found    == glob(renamed)
             thisFiles == IF c.literal THEN <<filename>>
                          ELSE IF found = << >> THEN <<renamed>> ELSE found
         IN  expandFilenames(c, i + 1,
                 [files |-> acc.files \o thisFiles,
                  explicit |-> IF Len(thisFiles) > 1 THEN FALSE ELSE acc.explicit,
                  executable |-> exe])

\* Packager.addFiles, lines 2298-2308: the second loop.
RECURSIVE addEachFile(_, _, _, _, _, _, _, _)
addEachFile(ft, c, ex, newName, i, skip, excluded, psc) ==
    IF i > Len(ex.files) THEN ft
    ELSE LET filename == ex.files[i]
             name == IF newName # NoName THEN newName
                     ELSE FN(c.newDir, filename.parts)
             a == [ filename |-> filename, newName |-> name,
                    deleteTemp |-> c.deleteTemp, explicit |-> ex.explicit,
                    compress |-> None, extract |-> c.extract, text |-> c.text,
                    unprocessed |-> None, executable |-> ex.executable,
                    platformSpecific |-> None ]
         IN  addEachFile(addFile(ft, a, skip, excluded, psc), c, ex, newName,
                         i + 1, skip, excluded, psc)

\* A variant of addFiles that adds the files before it raises.
addFilesThenRaises(ft, c, skip, excluded, psc) ==
    LET ex == expandFilenames(c, 1, [files |-> << >>, explicit |-> TRUE,
                                     executable |-> c.executable])
        hasText == c.text # None /\ c.text # ""
        added == addEachFile(ft, c, ex, c.newName, 1, skip, excluded, psc)
    IN  IF (c.newName # NoName \/ hasText) /\ Len(ex.files) # 1
        THEN [added EXCEPT !.raised = "PackagerError"]
        ELSE added

\* Packager.addFiles, lines 2200-2308, inside a package.
addFiles(ft, c, skip, excluded, psc) ==
    LET ex == expandFilenames(c, 1, [files |-> << >>, explicit |-> TRUE,
                                     executable |-> c.executable])
        hasText == c.text # None /\ c.text # ""
        newName == IF hasText /\ c.newName = NoName THEN c.filenames[1]
                   ELSE c.newName
    IN  IF (c.newName # NoName \/ hasText) /\ Len(ex.files) # 1
        THEN [ft EXCEPT !.raised = "PackagerError"]
        ELSE addEachFile(ft, c, ex, newName, 1, skip, excluded, psc)

\* The current package's file table becomes ft.
SetFileTable(ft) ==
    /\ objs' = ft.objs
    /\ files' = ft.files
    /\ sourceFilenames' = ft.src
    /\ targetFilenames' = ft.tgt

\* Packager.do_file(*args, **kw), lines 2194-2198.
do_file(c) ==
    /\ Idle
    /\ last' = [op |-> "file", call |-> c, before |-> Len(objs)]
    /\ IF ~hasCurrent THEN OutsideOfPackage
       ELSE LET ft == addFiles(FileTable, c, skipFilenames, excludedFilenames,
                               pkg.platformSpecificConfig)
            IN  /\ SetFileTable(ft)
                /\ notify' = ft.warn
                /\ err' = ft.raised
                /\ UNCHANGED <<hasCurrent, pkg, excludedFilenames, reqVars, modules,
                               buildVars, packagerVars>>

\* Freezer.generateCode(basename, compileToExe) on a posix host: the name
\* of the file it writes into the current directory, a shared library or
\* an executable with no extension.
generateCode(basename, compileToExe) ==
    IF compileToExe THEN FN("", <<basename>>) ELSE FN("", <<basename, "so">>)

\* Packager.do_freeze(filename, compileToExe), lines 2143-2192, for a
\* filename with no directory and a freezer that found no extension
\* modules.  The freezer's table is consumed by done() and generateCode()
\* and emptied by reset().
do_freeze(filename, compileToExe) ==
    /\ Idle
    /\ last' = [op |-> "freeze", filename |-> filename,
                compileToExe |-> compileToExe, before |-> Len(objs)]
    /\ IF ~hasCurrent THEN OutsideOfPackage
       ELSE IF pkg.mainModule = NoMain /\ compileToExe
       THEN /\ err' = "PackagerError"
            /\ notify' = {}
            /\ UNCHANGED <<hasCurrent, pkg, fileVars, excludedFilenames, reqVars,
                           modules, buildVars, packagerVars>>
       ELSE LET basename == generateCode(filename, compileToExe)
                a  == [FileArgs(basename, basename, TRUE)
                         EXCEPT !.deleteTemp = TRUE, !.extract = "True"]
                ft == addFile(FileTable, a, skipFilenames, excludedFilenames,
                              pkg.platformSpecificConfig)
            IN  /\ SetFileTable(ft)
                /\ notify' = ft.warn \cup
                       (IF pkg.mainModule # NoMain /\ ~compileToExe
                        THEN {[kind |-> "Ignoring main_module"]} ELSE {})
                /\ err' = ft.raised
                /\ pkg' = IF ft.raised # None
                          THEN [pkg EXCEPT !.mainModule =
                                   IF compileToExe THEN <<@[1], "__main__">>
                                   ELSE NoMain]
                          ELSE [pkg EXCEPT
                                  !.platform = IF @ = None THEN Platform ELSE @,
                                  !.mainModule = NoMain]
                /\ modules' = IF ft.raised # None THEN modules ELSE << >>
                /\ UNCHANGED <<hasCurrent, excludedFilenames, reqVars,
                               buildVars, packagerVars>>

\* vfs.scanDirectory(filename): the entries of a directory, in order, or
\* the empty list for anything that is not a directory.
scanDirectory(f) ==
    IF makeCanonical(f) = FN("/cwd", <<"data">>)
    THEN << FN("data", <<"deep">>), FN("data", <<"libc", "so", "6">>),
            FN("data", <<"notes", "txt">>) >>
    ELSE IF makeCanonical(f) = FN("/cwd/data", <<"deep">>)
    THEN << FN("data/deep", <<"low", "bam">>) >>
    ELSE << >>

\* Packager.setup, line 1617.
knownExtensions ==
    imageExtensions \cup {"egg", "bam"} \cup {"prc", "ptf", "txt"}
        \cup {"ttf", "wav", "mid"} \cup uncompressibleExtensions
        \cup unprocessedExtensions

\* The prefix of lines 2353-2355 as a directory of the package tree: the
\* target name of the directory being walked ("" at the top, when do_dir is
\* given no newDir; the model's tree is two levels deep).
PrefixDir(newName) == IF newName = NoName THEN "" ELSE newName.parts[1]

\* Packager.__recurseDir, lines 2349-2376.  The recursive call (line 2358)
\* passes no unprocessed argument.
RECURSIVE recurseDir(_, _, _, _, _, _, _, _)
RECURSIVE recurseEntries(_, _, _, _, _, _, _)
recurseEntries(ft, dirList, i, prefix, skip, excluded, psc) ==
    IF i > Len(dirList) THEN ft
    ELSE recurseEntries(
             recurseDir(ft, dirList[i], FN(prefix, dirList[i].parts), None,
                        skip, excluded, psc, 0),
             dirList, i + 1, prefix, skip, excluded, psc)

recurseDir(ft, filename, newName, unprocessed, skip, excluded, psc, dummy) ==
    LET dirList == scanDirectory(filename) IN
    IF dirList # << >>
    THEN recurseEntries(ft, dirList, 1, PrefixDir(newName), skip, excluded, psc)
    ELSE LET ext0 == getExtension(filename)
             ext  == IF ext0 = "pz" THEN getExtension(stripExtension(filename))
                     ELSE ext0
             a    == [FileArgs(filename, newName, FALSE)
                         EXCEPT !.unprocessed = unprocessed]
         IN  IF ext0 = "py" \/ ext \in knownExtensions
             THEN addFile(ft, a, skip, excluded, psc)
             ELSE ft

\* Packager.do_dir(dirname, unprocessed = ...), lines 2322-2347, with no
\* newDir.
do_dir(dirname, unprocessed) ==
    /\ Idle
    /\ last' = [op |-> "dir", dirname |-> dirname, unprocessed |-> unprocessed,
                before |-> Len(objs)]
    /\ IF ~hasCurrent THEN OutsideOfPackage
       ELSE LET ft == recurseDir(FileTable, dirname, NoName, unprocessed,
                                 skipFilenames, excludedFilenames,
                                 pkg.platformSpecificConfig, 0)
            IN  /\ SetFileTable(ft)
                /\ notify' = ft.warn
                /\ err' = ft.raised
                /\ UNCHANGED <<hasCurrent, pkg, excludedFilenames, reqVars, modules,
                               buildVars, packagerVars>>

----------------------------------------------------------------------------
(* Requirements *)

\* The requirement state of a package, as one value.
ReqTable == [requires |-> requires, skipFilenames |-> skipFilenames,
             skipModules |-> skipModules]

\* A variant of the loop of Package.requirePackage that appends without
\* looking whether the package is on the list: what C9 rules out.
RECURSIVE requireEachAgain(_, _, _, _)
requireEachAgain(rt, heap, list, i) ==
    IF i > Len(list) THEN rt
    ELSE requireEachAgain(
             [requires |-> Append(rt.requires, list[i]),
              skipFilenames |-> rt.skipFilenames \cup heap[list[i]].targetFilenames,
              skipModules |-> heap[list[i]].moduleNames @@ rt.skipModules],
             heap, list, i + 1)

\* Package.requirePackage(package), lines 1408-1419: the loop over
\* package.requires + [package], from position i on.
RECURSIVE requireEach(_, _, _, _)
requireEach(rt, heap, list, i) ==
    IF i > Len(list) THEN rt
    ELSE LET p2 == list[i] IN
         IF \E k \in 1..Len(rt.requires) : rt.requires[k] = p2
         THEN requireEach(rt, heap, list, i + 1)
         ELSE requireEach(
                 [requires |-> Append(rt.requires, p2),
                  skipFilenames |-> rt.skipFilenames \cup heap[p2].targetFilenames,
                  skipModules |-> heap[p2].moduleNames @@ rt.skipModules],
                 heap, list, i + 1)

PackageRequirePackage(rt, heap, package) ==
    requireEach(rt, heap, heap[package].requires \o <<package>>, 1)

\* A variant of Packager.requirePackage that logs nothing: what C6 rules
\* out.
requireSilently(heap, package) == {}

\* Packager.requirePackage(package), lines 2070-2090, inside a package:
\* the warnings it logs.
requireWarnings(heap, package) ==
    IF heap[package].packageName # "panda3d" THEN {}
    ELSE IF heap[package].version # RuntimeVersion
    THEN {[kind |-> "panda3d version mismatch", version |-> heap[package].version]}
    ELSE IF heap[package].host # RuntimeHost
    THEN {[kind |-> "panda3d host mismatch", host |-> heap[package].host]}
    ELSE {}

\* The keyword arguments of do_require: which keywords are given, and the
\* values of version and host.
RequireKw(hasVersion, version, hasHost, host, other) ==
    [hasVersion |-> hasVersion, version |-> version, hasHost |-> hasHost,
     host |-> host, other |-> other]

\* Packager.do_require, lines 2043-2048: the keywords are checked.  For
\* each of 'version' and 'host' that is given, kw['version'] is deleted
\* (line 2045), which raises KeyError when 'host' is given: by then
\* 'version' is absent or already deleted.
requireKwRaises(kw) ==
    IF kw.hasHost THEN "KeyError"
    ELSE IF kw.other THEN "TypeError"
    ELSE None

\* Packager.do_require, lines 2050-2068: the loop over the package names,
\* from position i on.  st is [r, rt, warn, raised]; res is what
\* findPackage gave for name i.
RECURSIVE requireNames(_, _, _, _, _, _)
RECURSIVE requireFound(_, _, _, _, _, _, _)
requireFound(st, res, d, ord, names, kw, i) ==
    IF res.r.raised # None
    THEN [st EXCEPT !.r = res.r, !.raised = res.r.raised]
    ELSE IF ~res.found
    THEN [st EXCEPT !.r = res.r, !.raised = "PackagerError"]
    ELSE requireNames(
            [r |-> res.r,
             rt |-> PackageRequirePackage(st.rt, res.r.pheap, res.id),
             warn |-> st.warn \cup requireWarnings(res.r.pheap, res.id),
             raised |-> None],
            d, ord, names, kw, i + 1)

requireNames(st, d, ord, names, kw, i) ==
    IF st.raised # None \/ i > Len(names) THEN st
    ELSE LET packageName == names[i]
             version  == IF kw.hasVersion THEN kw.version ELSE None
             host     == IF kw.hasHost THEN kw.host ELSE None
             pversion == IF packageName = "panda3d" /\ version = None
                         THEN RuntimeVersion ELSE version
             phost    == IF packageName = "panda3d" /\ host = None
                         THEN RuntimeHost ELSE host
         IN  requireFound(st,
                 findPackage(st.r, d, ord, packageName, None, pversion,
                             phost, st.rt.requires, TRUE, 1),
                 d, ord, names, kw, i)

\* Packager.do_require(*args, **kw), lines 2029-2068, inside a package:
\* the resolver, the requirement table, the warnings and the exception.
requireResult(r, rt, d, ord, names, kw) ==
    LET st0 == [r |-> r, rt |-> rt, warn |-> {}, raised |-> None] IN
    IF requireKwRaises(kw) # None
    THEN [st0 EXCEPT !.raised = requireKwRaises(kw)]
    ELSE requireNames(st0, d, ord, names, kw, 1)

SetRequire(st) ==
    /\ pheap' = st.r.pheap
    /\ packages' = st.r.packages
    /\ requires' = st.rt.requires
    /\ skipFilenames' = st.rt.skipFilenames
    /\ skipModules' = st.rt.skipModules
    /\ notify' = st.warn
    /\ err' = st.raised

do_require(names, kw, ord) ==
    /\ Idle
    /\ last' = [op |-> "require", names |-> names, kw |-> kw]
    /\ IF ~hasCurrent THEN OutsideOfPackage
       ELSE /\ SetRequire(requireResult(Resolver, ReqTable, disk.imports, ord,
                                        names, kw))
            /\ UNCHANGED <<hasCurrent, pkg, fileVars, excludedFilenames, modules,
                           buildVars, packageList, contents, contentsChanged, disk,
                           settings>>

\* Packager.requirePackage(package), lines 2070-2090, called with a
\* Package object the resolver holds.
requirePackage(package) ==
    /\ Idle
    /\ package \in 1..Len(pheap)
    /\ last' = [op |-> "requirePackage", package |-> package,
                wasRequired |-> \E k \in 1..Len(requires) : requires[k] = package]
    /\ IF ~hasCurrent THEN OutsideOfPackage
       ELSE LET rt == PackageRequirePackage(ReqTable, pheap, package) IN
            /\ requires' = rt.requires
            /\ skipFilenames' = rt.skipFilenames
            /\ skipModules' = rt.skipModules
            /\ notify' = requireWarnings(pheap, package)
            /\ err' = None
            /\ UNCHANGED <<hasCurrent, pkg, fileVars, excludedFilenames, modules,
                           buildVars, packagerVars>>

----------------------------------------------------------------------------
(* endPackage and Package.close() *)

\* The elements of a sequence.
Range(q) == { q[i] : i \in 1..Len(q) }

\* A function with the key k removed (del d[k]).
Without(f, k) == [x \in (DOMAIN f) \ {k} |-> f[x]]

\* Package.close(), lines 257-271: the host and the version and
\* platform_specific config variables.
closeConfigs(p) ==
    LET hasV == "version" \in DOMAIN p.configs
        hasP == "platform_specific" \in DOMAIN p.configs
    IN  [p EXCEPT
           !.host = IF p.host = None THEN settings.host ELSE p.host,
           !.version = IF hasV THEN p.configs["version"] ELSE p.version,
           !.platformSpecificConfig =
               IF hasP THEN p.configs["platform_specific"] ELSE None,
           !.configs = Without(Without(p.configs, "version"), "platform_specific")]

\* A variant of the checks of close() that looks at the version alone:
\* what C7 rules out.
closePandaVersionOnly(p) ==
    IF p.packageName = "panda3d" /\ p.version # None /\ p.version # RuntimeVersion
    THEN "PackagerError" ELSE None

\* Package.close(), lines 276-286: the checks made of a package named
\* panda3d; the exception raised, or None.
closePandaRaises(p) ==
    IF p.packageName # "panda3d" THEN None
    ELSE LET version == IF p.version = None THEN RuntimeVersion ELSE p.version IN
         IF version # RuntimeVersion THEN "PackagerError"
         ELSE IF p.host # RuntimeHost THEN "PackagerError"
         ELSE None

\* Package.close(), lines 295-302: a package with no version inherits the
\* version of the first versioned panda3d on its requires list.
RECURSIVE inheritedVersion(_, _, _)
inheritedVersion(heap, reqs, i) ==
    IF i > Len(reqs) THEN None
    ELSE IF heap[reqs[i]].packageName = "panda3d" /\ heap[reqs[i]].version # None
    THEN heap[reqs[i]].version
    ELSE inheritedVersion(heap, reqs, i + 1)

\* The current package stays open and the operation ends with exception e.
RaiseInClose(e) ==
    /\ err' = e
    /\ pc' = "idle"
    /\ idx' = 0

\* Package.close(), lines 277-278: a panda3d package with no version takes
\* the running version.
closeVersion(p1) ==
    IF p1.packageName = "panda3d" /\ p1.version = None
    THEN [p1 EXCEPT !.version = RuntimeVersion] ELSE p1

\* Package.close(), lines 288-290: the compression level of an application.
closeApplication(p2) ==
    IF p2.p3dApplication THEN [p2 EXCEPT !.compressionLevel = 6] ELSE p2

\* A variant of close() that requires nothing for an application: what
\* C8 rules out.
closeWithoutRequire(p, ord) ==
    [r |-> Resolver, rt |-> ReqTable, warn |-> {}, raised |-> None]

\* Package.close(), lines 292-293: every application requires panda3d.
closeRequire(p, ord) ==
    IF p.p3dApplication
    THEN requireResult(Resolver, ReqTable, disk.imports, ord, <<"panda3d">>,
                       RequireKw(FALSE, None, FALSE, None, FALSE))
    ELSE [r |-> Resolver, rt |-> ReqTable, warn |-> {}, raised |-> None]

\* Package.close(), lines 295-302.
closeInherit(p3, inh) ==
    IF ~p3.p3dApplication /\ (p3.version = None \/ p3.version = "") /\ inh # None
    THEN [p3 EXCEPT !.version = inh] ELSE p3

\* Package.close(), lines 273-307, after the config variables are read
\* (p1); st is what do_require('panda3d') gave.
closePackage(p1, st) ==
    /\ UNCHANGED <<hasCurrent, fileVars, excludedFilenames, modules,
                   multifile, components, extracts, moduleNames,
                   packageList, contents, contentsChanged, disk, settings>>
    /\ IF closePandaRaises(p1) # None
       THEN /\ pkg' = closeVersion(p1)
            /\ RaiseInClose(closePandaRaises(p1))
            /\ notify' = {}
            /\ UNCHANGED <<reqVars, pheap, packages>>
       ELSE IF st.raised # None
       THEN /\ pkg' = closeApplication(closeVersion(p1))
            /\ SetRequire(st)
            /\ pc' = "idle"
            /\ idx' = 0
       ELSE /\ pkg' = closeInherit(closeApplication(closeVersion(p1)),
                                   inheritedVersion(st.r.pheap, st.rt.requires, 1))
            /\ SetRequire(st)
            /\ pc' = IF p1.solo THEN "installSolo" ELSE "installMultifile"
            /\ idx' = 0

\* Packager.endPackage, lines 1799-1807, and Package.close(), lines
\* 254-307, up to the choice between installSolo and installMultifile.
endPackage(ord) ==
    /\ Idle
    /\ last' = [op |-> "endPackage"]
    /\ IF ~hasCurrent
       THEN /\ err' = "PackagerError"
            /\ notify' = {}
            /\ UNCHANGED <<hasCurrent, pkg, fileVars, excludedFilenames, reqVars,
                           modules, buildVars, packagerVars>>
       ELSE closePackage(closeConfigs(pkg), closeRequire(closeConfigs(pkg), ord))

----------------------------------------------------------------------------
(* Package.installMultifile *)

File(i) == objs[files[i]]

Excluded(file) ==
    isExcluded(file, skipFilenames, excludedFilenames, pkg.platformSpecificConfig)

\* Package.addPyFile, lines 1153-1173: the module a python file of the top
\* directory stands for (its target name without the extension).
pyModuleName(newName) == newName.parts[1]

\* The first loop of installMultifile, lines 346-360, from file i on: the
\* python files that are neither excluded nor unprocessed become modules.
\* (The model's files include no dc file.)
RECURSIVE addPyFiles(_, _)
addPyFiles(mods, i) ==
    IF i > Len(files) THEN mods
    ELSE LET file == File(i)
             m    == pyModuleName(file.newName)
         IN  IF ~Excluded(file) /\ ~file.unprocessed
                /\ getExtension(file.newName) = "py" /\ m \notin DOMAIN mods
             THEN addPyFiles(freezerAddModule(mods, m, FALSE), i + 1)
             ELSE addPyFiles(mods, i + 1)

\* Lines 366-369: the main module is entered in the freezer's table.
addMainModule(mods) ==
    IF pkg.mainModule # NoMain /\ pkg.mainModule[2] \notin DOMAIN mods
    THEN freezerAddModule(mods, pkg.mainModule[2], FALSE)
    ELSE mods

\* Lines 374-378: the modules of required packages that this package does
\* not name itself are excluded, marked as coming from 'skip'.
excludeSkipModules(mods) ==
    [ m \in (DOMAIN mods) \cup (DOMAIN skipModules) |->
        IF m \in DOMAIN mods THEN mods[m]
        ELSE ModuleDef(TRUE, skipModules[m].forbid, skipModules[m].allowChildren,
                       FALSE, FALSE, "skip") ]

\* The python modules that can be found on the python path.
AvailableModules == {"main", "foo", "bar", "util"}

\* Freezer.done(): a module of the table that cannot be found is excluded
\* and flagged implicit.
freezerDone(mods) ==
    [ m \in DOMAIN mods |->
        IF ~mods[m].exclude /\ m \notin AvailableModules
        THEN [mods[m] EXCEPT !.exclude = TRUE, !.implicit = TRUE]
        ELSE mods[m] ]

\* Multifile.addSubfile(name, source): a subfile of that name is replaced.
addSubfile(mf, name, source) ==
    LET keep == { i \in 1..Len(mf) : mf[i].name # name }
        F[i \in 0..Len(mf)] ==
            IF i = 0 THEN << >>
            ELSE IF i \in keep THEN Append(F[i - 1], mf[i]) ELSE F[i - 1]
    IN  Append(F[Len(mf)], [name |-> name, source |-> source])

\* A set of strings as a sequence in sorted order (the model's module names
\* in alphabetical order).
NameOrder == <<"bar", "foo", "ghost", "main", "panda3d", "util">>
RECURSIVE sortedFrom(_, _)
sortedFrom(S, i) ==
    IF i > Len(NameOrder) THEN << >>
    ELSE (IF NameOrder[i] \in S THEN <<NameOrder[i]>> ELSE << >>)
             \o sortedFrom(S, i + 1)
sorted(S) == sortedFrom(S, 1)

\* Freezer.addToMultifile: each module frozen into the package is stored
\* as a compiled subfile.
RECURSIVE addToMultifile(_, _, _, _)
addToMultifile(mf, mods, names, i) ==
    IF i > Len(names) THEN mf
    ELSE IF mods[names[i]].exclude THEN addToMultifile(mf, mods, names, i + 1)
    ELSE addToMultifile(
             addSubfile(mf, FN("", <<names[i], "pyo">>), FN("<frozen>", <<names[i]>>)),
             mods, names, i + 1)

\* A variant of the module table that repeats the modules of required
\* packages: what C10 rules out.
exportedAlsoSkipped(mods) ==
    { m \in DOMAIN mods :
        /\ ~mods[m].guess
        /\ ~(mods[m].exclude /\ mods[m].implicit)
        /\ m # "__main__" }

\* Lines 386-408: the modules this package exports.
exportedModules(mods) ==
    { m \in DOMAIN mods :
        /\ ~mods[m].guess
        /\ mods[m].fromSource # "skip"
        /\ ~(mods[m].exclude /\ mods[m].implicit)
        /\ m # "__main__" }

\* Lines 410-418: the <module> record of an exported module.
moduleComponent(mods, m) ==
    [type |-> "m", name |-> FN("", <<m>>), exclude |-> mods[m].exclude,
     forbid |-> mods[m].forbid,
     allowChildren |-> mods[m].exclude /\ mods[m].allowChildren]

\* The <component> record of a file written to the archive (lines
\* 1404-1406 and 1249-1251); it carries none of the module attributes.
fileComponent(newName) ==
    [type |-> "c", name |-> newName, exclude |-> FALSE, forbid |-> FALSE,
     allowChildren |-> FALSE]

RECURSIVE moduleComponents(_, _, _)
moduleComponents(mods, names, i) ==
    IF i > Len(names) THEN << >>
    ELSE <<moduleComponent(mods, names[i])>> \o moduleComponents(mods, names, i + 1)

\* A variant of the test below that lets every package pass.
mainModuleOptional(p) == FALSE

\* installMultifile, line 363: an application that names no main module.
mainModuleMissing(p) == p.mainModule = NoMain /\ p.p3dApplication

\* installMultifile, lines 331-418: the archive is opened, the python
\* files and the main module become modules, the modules of required
\* packages are excluded, the freezer runs, and the module table is built.
installModules ==
    /\ pc = "installMultifile"
    /\ UNCHANGED <<hasCurrent, pkg, fileVars, excludedFilenames, reqVars,
                   packagerVars, last>>
    /\ notify' = {}
    /\ LET m1 == addPyFiles(modules, 1) IN
       IF mainModuleMissing(pkg)
       THEN /\ modules' = m1
            /\ multifile' = << >>
            /\ components' = << >>
            /\ extracts' = << >>
            /\ RaiseInClose("PackagerError")
            /\ UNCHANGED moduleNames
       ELSE LET m2 == freezerDone(excludeSkipModules(addMainModule(m1))) IN
            /\ modules' = m2
            /\ multifile' = addToMultifile(<< >>, m2, sorted(DOMAIN m2), 1)
            /\ extracts' = << >>
            /\ moduleNames' = exportedModules(m2)
            /\ components' = moduleComponents(m2, sorted(exportedModules(m2)), 1)
            /\ pc' = "dependencies"
            /\ idx' = 1
            /\ err' = None

\* What ldd prints for an executable file: the names, left of " => ", of
\* the shared libraries it depends on.  libfoo and libbar depend on each
\* other; every library depends on the C library.
Ldd(filename) ==
    CASE filename = FN("/cwd", <<"app", "so">>) ->
             << FN("", <<"libfoo", "so">>), FN("", <<"libc", "so", "6">>) >>
      [] filename = FN("/usr/lib", <<"libfoo", "so">>) ->
             << FN("", <<"libbar", "so">>), FN("", <<"libc", "so", "6">>) >>
      [] filename = FN("/usr/lib", <<"libbar", "so">>) ->
             << FN("", <<"libfoo", "so">>) >>
      [] OTHER -> << >>

\* The files on which ldd exits with an error (lines 817-832): it leaves an
\* empty listing, or none at all, and then a warning is logged.
lddFails(filename) == filename = FN("/cwd", <<"libpanda", "so">>)

\* The directory of a file, as a search path (line 837).
dirnamePath(filename) == << filename.dir >>

\* A variant of the lookup that puts every library it finds at the end of
\* the list, without asking addFile whether the package has it.
RECURSIVE addDependenciesAgain(_, _, _, _)
addDependenciesAgain(ft, file, filenames, i) ==
    IF i > Len(filenames) THEN ft
    ELSE LET filename == resolveFilename(filenames[i], dirnamePath(file.filename))
             a == [FileArgs(filename, getBasename(filename), FALSE)
                      EXCEPT !.executable = "True"]
         IN  addDependenciesAgain(
                 [ft EXCEPT !.objs = Append(ft.objs, PackFile(a)),
                            !.files = Append(ft.files, Len(ft.objs) + 1)],
                 file, filenames, i + 1)

\* __addImplicitDependenciesPosix, lines 839-843: the libraries one file
\* depends on are added, from position i of the ldd output on.
RECURSIVE addDependencies(_, _, _, _)
addDependencies(ft, file, filenames, i) ==
    IF i > Len(filenames) THEN ft
    ELSE LET filename == resolveFilename(filenames[i], dirnamePath(file.filename))
             a == [FileArgs(filename, getBasename(filename), FALSE)
                      EXCEPT !.executable = "True"]
         IN  addDependencies(
                 addFile(ft, a, skipFilenames, excludedFilenames,
                         pkg.platformSpecificConfig),
                 file, filenames, i + 1)

\* A variant of the test below that passes over the files the pass itself
\* has added.
scannedFirstOnly(file) ==
    file.executable /\ file.explicit /\ ~Excluded(file)

\* __addImplicitDependenciesPosix, lines 810-815: the files whose
\* dependencies are looked up are the executables that are not excluded.
scanned(file) ==
    file.executable /\ ~Excluded(file)

\* One turn of the loop of __addImplicitDependenciesPosix, lines 809-843,
\* over the list of files as it grows; after the last file the second
\* loop of installMultifile begins.
addImplicitDependenciesPosix ==
    /\ pc = "dependencies"
    /\ UNCHANGED <<hasCurrent, pkg, excludedFilenames, reqVars, modules,
                   multifile, components, extracts, moduleNames, packagerVars,
                   last>>
    /\ err' = None
    /\ IF idx > Len(files)
       THEN /\ pc' = "files"
            /\ idx' = 1
            /\ notify' = {}
            /\ UNCHANGED fileVars
       ELSE LET file == File(idx) IN
            /\ pc' = pc
            /\ idx' = idx + 1
            /\ IF ~scanned(file)
               THEN /\ notify' = {}
                    /\ UNCHANGED fileVars
               ELSE IF lddFails(file.filename)
               THEN /\ notify' \in {{}, {[kind |-> "Unable to determine dependencies",
                                          file |-> file.filename]}}
                    /\ UNCHANGED fileVars
               ELSE LET ft == addDependencies(FileTable, file, Ldd(file.filename), 1)
                    IN  /\ SetFileTable(ft)
                        /\ notify' = ft.warn

\* Filename.temporary('', 'p3d_', ext): a fresh name; n tells the
\* temporary files of one run apart.
temporary(n, ext) == FN("/tmp", <<"p3d_", ToString(n), ext>>)

\* The source a subfile is written from: the file's text, when it has one,
\* or the file it names (lines 1394-1399).
subfileSource(file) ==
    IF file.text # None /\ file.text # "" THEN FN("<text>", <<file.text>>)
    ELSE file.filename

\* Package.addPrcFile, lines 1338-1385, on the PackFile object: the file
\* is rewritten to a temporary file, and with an encryption key its target
\* name changes from .prc to .pre.
prcFile(file, n) ==
    LET key == settings.prcEncryptionKey # None IN
    [file EXCEPT
        !.newName = IF key /\ getExtension(file.newName) = "prc"
                    THEN setExtension(file.newName, "pre") ELSE file.newName,
        !.filename = temporary(n, IF key THEN "pre" ELSE "prc"),
        !.text = None,
        !.deleteTemp = TRUE]

\* A variant of the test below in which the exit status of the sign command
\* is not looked at.
signIgnored(s) == FALSE

\* Package.addPrcFile, lines 1360-1367: the sign command was run and its
\* exit status is not 0, which notify.error turns into an exception.
signFailed(s) == s.prcSignCommand = "sign-fails"

\* Package.addComponent(file), lines 1389-1406.
addComponent(file) ==
    /\ multifile' = addSubfile(multifile, file.newName, subfileSource(file))
    /\ extracts' = IF file.extract THEN Append(extracts, file.newName) ELSE extracts
    /\ components' = Append(components, fileComponent(file.newName))

\* One turn of the second loop of installMultifile, lines 431-453; after
\* the last file the model files are added.
addRealFiles ==
    /\ pc = "files"
    /\ UNCHANGED <<hasCurrent, pkg, files, sourceFilenames, targetFilenames,
                   excludedFilenames, reqVars, modules, moduleNames,
                   packagerVars, last>>
    /\ notify' = {}
    /\ IF idx > Len(files)
       THEN /\ pc' = "models"
            /\ idx' = 1
            /\ err' = None
            /\ UNCHANGED <<objs, multifile, components, extracts>>
       ELSE LET file == File(idx)
                ext  == getExtension(file.newName)
            IN  IF file.unprocessed
                THEN /\ addComponent(file)
                     /\ pc' = pc /\ idx' = idx + 1 /\ err' = None
                     /\ UNCHANGED objs
                ELSE IF ext = "py" \/ Excluded(file) \/ ext \in {"egg", "bam"}
                THEN /\ pc' = pc /\ idx' = idx + 1 /\ err' = None
                     /\ UNCHANGED <<objs, multifile, components, extracts>>
                ELSE IF ext = "prc"
                THEN IF signFailed(settings)
                     THEN /\ RaiseInClose("StandardError")
                          /\ UNCHANGED <<objs, multifile, components, extracts>>
                     ELSE /\ objs' = [objs EXCEPT ![files[idx]] = prcFile(file, idx)]
                          /\ addComponent(prcFile(file, idx))
                          /\ pc' = pc /\ idx' = idx + 1 /\ err' = None
                ELSE /\ addComponent(file)
                     /\ pc' = pc /\ idx' = idx + 1 /\ err' = None
                     /\ UNCHANGED objs

\* The textures a model file refers to (NodePath.findAllTextures), by
\* full path.
Textures(filename) ==
    CASE filename = FN("/cwd", <<"m", "bam">>) ->
             << FN("/tex", <<"t", "png">>), FN("/tex2", <<"t", "png">>),
                FN("/tex", <<"a", "pre">>) >>
      [] filename = FN("/cwd/data/deep", <<"low", "bam">>) ->
             << FN("/tex", <<"t", "png">>) >>
      [] OTHER -> << >>

importedMapsDir == "imported_maps"

\* Lines 1267-1273: the first of imported_maps/base.ext,
\* imported_maps/base_1.ext, ... that is no key of targetFilenames.
RECURSIVE uniqueName(_, _, _)
uniqueName(tgt, filename, uniqueId) ==
    LET newName ==
            IF uniqueId = 0 THEN FN(importedMapsDir, filename.parts)
            ELSE FN(importedMapsDir,
                    << filename.parts[1] \o "_" \o ToString(uniqueId),
                       getExtension(filename) >>)
    IN  IF newName \in DOMAIN tgt THEN uniqueName(tgt, filename, uniqueId + 1)
        ELSE newName

\* Package.addFoundTexture(filename), lines 1253-1277.
addFoundTexture(ft, filename0) ==
    LET filename == makeCanonical(filename0) IN
    IF filename \in DOMAIN ft.src THEN ft
    ELSE addFile(ft,
                 [FileArgs(filename, uniqueName(ft.tgt, filename, 0), FALSE)
                     EXCEPT !.compress = "False"],
                 skipFilenames, excludedFilenames, pkg.platformSpecificConfig)

\* What addFoundTexture returns, lines 1259-1277: the name within the
\* package that the model is told to use for the texture.
foundTextureName(ft, filename0) ==
    LET filename == makeCanonical(filename0) IN
    IF filename \in DOMAIN ft.src THEN ft.objs[ft.src[filename]].newName
    ELSE uniqueName(ft.tgt, filename, 0)

\* Package.addNode, lines 1212-1227: the textures of a model, from
\* position i on.
RECURSIVE addTextures(_, _, _)
addTextures(ft, texs, i) ==
    IF i > Len(texs) THEN ft
    ELSE addTextures(addFoundTexture(ft, texs[i]), texs, i + 1)

\* Package.addNode, line 1224 (tex.setFilename): the names the textures of
\* a model are given, from position i on.
RECURSIVE textureNames(_, _, _)
textureNames(ft, texs, i) ==
    IF i > Len(texs) THEN << >>
    ELSE <<foundTextureName(ft, texs[i])>>
             \o textureNames(addFoundTexture(ft, texs[i]), texs, i + 1)

\* Package.addNode, lines 1229-1242: the bam stream written for a model
\* keeps its textures by the names they were given.
bamStream(filename, names) ==
    [dir |-> "<stream>", parts |-> filename.parts, textures |-> names]

findSubfile(mf, name) == \E i \in 1..Len(mf) : mf[i].name = name

\* One turn of the third loop of installMultifile, lines 462-479, with
\* addBamFile and addNode (lines 1185-1251); after the last file the
\* package is written out.
addModelFiles ==
    /\ pc = "models"
    /\ UNCHANGED <<hasCurrent, pkg, excludedFilenames, reqVars, modules,
                   extracts, moduleNames, packagerVars, last>>
    /\ err' = None
    /\ IF idx > Len(files)
       THEN /\ pc' = "write"
            /\ idx' = 0
            /\ notify' = {}
            /\ UNCHANGED <<fileVars, multifile, components>>
       ELSE LET file == File(idx)
                ext  == getExtension(file.newName)
            IN  /\ pc' = pc
                /\ idx' = idx + 1
                /\ IF file.unprocessed \/ ext = "py" \/ Excluded(file)
                      \/ ext # "bam" \/ findSubfile(multifile, file.newName)
                   THEN /\ notify' = {}
                        /\ UNCHANGED <<fileVars, multifile, components>>
                   ELSE LET ft == addTextures(FileTable, Textures(file.filename), 1)
                        IN  /\ SetFileTable(ft)
                            /\ notify' = ft.warn
                            /\ multifile' = addSubfile(multifile, file.newName,
                                    bamStream(file.filename,
                                        textureNames(FileTable,
                                            Textures(file.filename), 1)))
                            /\ components' = Append(components, fileComponent(file.newName))

\* A value Python takes as true: neither None nor the empty string.
truthy(x) == x # None /\ x # ""

\* A variant of considerPlatform that looks at every file of the package,
\* the excluded ones too.
considerPlatformAllFiles(p) ==
    LET platformSpecific ==
            \/ p.platformSpecificConfig = "True"
            \/ \E i \in 1..Len(files) : File(i).platformSpecific
    IN  IF platformSpecific /\ p.platformSpecificConfig # "False"
           /\ ~truthy(p.platform)
        THEN [p EXCEPT !.platform = Platform] ELSE p

\* Package.considerPlatform, lines 309-323: the package's platform.
considerPlatform(p) ==
    LET platformSpecific ==
            \/ p.platformSpecificConfig = "True"
            \/ \E i \in 1..Len(files) :
                  ~Excluded(File(i)) /\ File(i).platformSpecific
    IN  IF platformSpecific /\ p.platformSpecificConfig # "False"
           /\ ~truthy(p.platform)
        THEN [p EXCEPT !.platform = Platform] ELSE p

\* A path under the install directory: its directories and the dotted
\* parts of its basename.
Path(dir, base) == [dir |-> dir, base |-> base]

opt(x) == IF truthy(x) THEN <<x>> ELSE << >>

\* installMultifile, lines 488-508: the names of the files written.
packageBaseParts(p) == <<p.packageName>> \o opt(p.version) \o opt(p.platform)
packageDir(p) == IF p.p3dApplication THEN << >> ELSE packageBaseParts(p)
packageFilename(p) ==
    Path(packageDir(p),
         packageBaseParts(p) \o (IF p.p3dApplication THEN <<"p3d">> ELSE <<"mf">>))
packageDesc(p) == Path(packageDir(p), packageBaseParts(p) \o <<"xml">>)
packageImportDesc(p) ==
    Path(packageDir(p), packageBaseParts(p) \o <<"import", "xml">>)

\* The place of a package's import descriptor in the install tree, as the
\* resolver's directory scan sees it.
importKey(p) ==
    << p.packageName, IF truthy(p.version) THEN p.version ELSE None,
       IF truthy(p.platform) THEN p.platform ELSE None >>

\* The <requires> elements of writeDescFile and writeImportDescFile, lines
\* 1049-1057.
RECURSIVE requiresElements(_, _)
requiresElements(p, i) ==
    IF i > Len(requires) THEN << >>
    ELSE LET q == pheap[requires[i]] IN
         << Req(q.packageName,
                IF truthy(p.platform) /\ truthy(q.platform) THEN q.platform ELSE None,
                IF truthy(q.version) THEN q.version ELSE None,
                q.host) >> \o requiresElements(p, i + 1)

\* Package.writeImportDescFile, lines 1040-1073: the descriptor written,
\* as Package.readImportDescFile will read it.
importDesc(p, comps) ==
    LET ms == { i \in 1..Len(comps) : comps[i].type = "m" }
        cs == { i \in 1..Len(comps) : comps[i].type = "c" }
    IN  Desc(p.packageName, IF truthy(p.platform) THEN p.platform ELSE None,
             IF truthy(p.version) THEN p.version ELSE None, p.host,
             requiresElements(p, 1),
             { comps[i].name : i \in cs },
             [ m \in { comps[i].name.parts[1] : i \in ms } |->
                 LET c == comps[CHOOSE i \in ms : comps[i].name.parts[1] = m]
                 IN  ModuleDef(c.exclude, c.forbid, c.allowChildren,
                               FALSE, FALSE, None) ])

\* A descriptor file (package.xml) as readDescFile sees it: whether it
\* loads and holds a <package> element, the two patch version attributes
\* (None when absent), the <patch> elements in document order, and the
\* files its <uncompressed_archive> and <compressed_archive> elements name.
DescFile(readable, patch_version, last_patch, patches, reqs, exts, mf, pz) ==
    [readable |-> readable, patch_version |-> patch_version,
     last_patch_version |-> last_patch, patches |-> patches,
     requires |-> reqs, extracts |-> exts,
     uncompressed_archive |-> mf, compressed_archive |-> pz]

\* Only the patch_version attribute is read.
readDescFileOneAttribute(descs, path) ==
    IF path \notin DOMAIN descs \/ ~descs[path].readable
    THEN [patchVersion |-> "1", patches |-> << >>]
    ELSE [patchVersion |-> IF truthy(descs[path].patch_version)
                           THEN descs[path].patch_version ELSE "1",
          patches |-> descs[path].patches]

\* Package.readDescFile, lines 935-961: patchVersion and patches as read
\* from the descriptor at path.
readDescFile(descs, path) ==
    IF path \notin DOMAIN descs \/ ~descs[path].readable
    THEN [patchVersion |-> "1", patches |-> << >>]
    ELSE LET d  == descs[path]
             pv == IF truthy(d.patch_version) THEN d.patch_version
                   ELSE d.last_patch_version
         IN  [patchVersion |-> IF truthy(pv) THEN pv ELSE "1",
              patches |-> d.patches]

\* Package.writeDescFile, lines 963-1020, with the patchVersion and
\* patches readDescFile left (prior): the descriptor written.
writeDescFile(p, prior) ==
    DescFile(TRUE, None, prior.patchVersion, prior.patches,
             requiresElements(p, 1), Range(extracts),
             <<packageFilename(p)>>,
             <<[packageFilename(p) EXCEPT !.base = @ \o <<"pz">>]>>)

\* The Package object endPackage keeps: what other packages read of it.
builtPackage(p) ==
    [packageName |-> p.packageName, platform |-> p.platform,
     version |-> p.version, host |-> p.host, requires |-> requires,
     targetFilenames |-> DOMAIN targetFilenames,
     moduleNames |-> [m \in moduleNames |-> modules[m]]]

\* Packager.endPackage, lines 1809-1813, after package.close() returned.
finishEndPackage(p) ==
    /\ hasCurrent' = FALSE
    /\ pheap' = Append(pheap, builtPackage(p))
    /\ packageList' = Append(packageList, Len(pheap) + 1)
    /\ packages' = (<<p.packageName, p.platform, p.version>> :> (Len(pheap) + 1))
                       @@ packages
    /\ pc' = "idle"
    /\ idx' = 0
    /\ err' = None

\* A variant of the move below that renames the previous archive whether
\* or not there is a base already.
moveToBaseAlways(archives, ar) ==
    LET base == [ar EXCEPT !.base = @ \o <<"base">>]
    IN  IF ar \in DOMAIN archives
        THEN (base :> archives[ar]) @@ archives
        ELSE archives

\* installMultifile, lines 518-525: the archive of a previous build becomes
\* the base of the patch chain when there is no base yet.
moveToBase(archives, ar) ==
    LET base == [ar EXCEPT !.base = @ \o <<"base">>]
    IN  IF base \notin DOMAIN archives /\ ar \in DOMAIN archives
        THEN (base :> archives[ar]) @@ archives
        ELSE archives

\* A variant of the application's installation that writes the archive and
\* leaves its mode as it was.
installApplicationPlain(d, ar, mf) ==
    [d EXCEPT !.archives = (ar :> mf) @@ @]

\* installMultifile, lines 535-541, for an application: the archive is
\* moved into place and made executable (mode 0755); nothing else is
\* written.
installApplication(d, ar, mf) ==
    [d EXCEPT !.archives = (ar :> mf) @@ @, !.executable = @ \cup {ar}]

\* installMultifile, lines 481-549: the platform is settled and the
\* archive, the descriptors and the contents entry are written; then
\* endPackage files the package.
writePackage ==
    /\ pc = "write"
    /\ LET p  == considerPlatform(pkg)
           mf == IF p.p3dApplication
                 THEN addSubfile(multifile, FN("", <<"p3d_info", "xml">>),
                                 temporary(0, "xml"))
                 ELSE multifile
           ar == packageFilename(p)
           base == [ar EXCEPT !.base = @ \o <<"base">>]
           pz   == [ar EXCEPT !.base = @ \o <<"pz">>]
           moved == IF p.p3dApplication THEN disk.archives
                    ELSE moveToBase(disk.archives, ar)
           pe == PackageEntry(p.packageName, p.platform, p.version, FALSE,
                              packageDesc(p), <<packageImportDesc(p)>>)
       IN  /\ pkg' = p
           /\ multifile' = mf
           /\ IF p.p3dApplication
              THEN /\ disk' = installApplication(disk, ar, mf)
                   /\ UNCHANGED <<contents, contentsChanged>>
              ELSE /\ disk' = [disk EXCEPT
                          !.archives = (ar :> mf) @@ (pz :> mf) @@ moved,
                          !.descs = (packageDesc(p) :>
                                       writeDescFile(p,
                                           readDescFile(disk.descs,
                                                        packageDesc(p)))) @@ @,
                          !.imports = (importKey(p) :> importDesc(p, components))
                                          @@ @]
                   /\ contents' = (getKey(pe) :> pe) @@ contents
                   /\ contentsChanged' = TRUE
           /\ finishEndPackage(p)
    /\ notify' = {}
    /\ UNCHANGED <<fileVars, excludedFilenames, reqVars, modules, components,
                   extracts, moduleNames, settings, last>>

\* A variant of the list below that stops at the first file that is not
\* excluded.
RECURSIVE includedFilesFirst(_)
includedFilesFirst(i) ==
    IF i > Len(files) THEN << >>
    ELSE IF Excluded(File(i)) THEN includedFilesFirst(i + 1)
    ELSE <<File(i)>>

\* The files of the package that are not excluded, in list order (lines
\* 573-578).
RECURSIVE includedFiles(_)
includedFiles(i) ==
    IF i > Len(files) THEN << >>
    ELSE (IF Excluded(File(i)) THEN << >> ELSE <<File(i)>>) \o includedFiles(i + 1)

\* Package.installSolo, lines 551-605, and the end of endPackage.
installSolo ==
    /\ pc = "installSolo"
    /\ notify' = {}
    /\ UNCHANGED <<fileVars, excludedFilenames, reqVars, modules, multifile,
                   components, extracts, moduleNames, settings, last>>
    /\ LET p  == considerPlatform(pkg)
           dir == <<p.packageName>> \o opt(p.platform) \o opt(p.version)
           fs == includedFiles(1)
           others == [ k \in { k \in DOMAIN disk.archives : k.dir # dir } |->
                         disk.archives[k] ]
       IN  /\ pkg' = p
           /\ IF fs = << >>
              THEN /\ disk' = [disk EXCEPT !.archives = others]
                   /\ UNCHANGED <<contents, contentsChanged>>
                   /\ finishEndPackage(p)
              ELSE IF Len(fs) # 1
              THEN /\ disk' = [disk EXCEPT !.archives = others]
                   /\ RaiseInClose("PackagerError")
                   /\ UNCHANGED <<hasCurrent, pheap, packages, packageList,
                                  contents, contentsChanged>>
              ELSE LET file == fs[1]
                       target == Path(dir, file.newName.parts)
                       pe == PackageEntry(p.packageName, p.platform, p.version,
                                          TRUE, target, << >>)
                   IN  /\ disk' = [disk EXCEPT !.archives =
                                      (target :> <<[name |-> file.newName,
                                                    source |-> file.filename]>>)
                                          @@ others]
                       /\ contents' = (getKey(pe) :> pe) @@ contents
                       /\ contentsChanged' = TRUE
                       /\ finishEndPackage(p)

\* contents.xml is saved whether or not an entry changed.
closeAlways ==
    /\ pc = "idle"
    /\ last' = [op |-> "close"]
    /\ disk' = [disk EXCEPT !.contentsFile = savedContentsFile(contents)]
    /\ notify' = {}
    /\ err' = err
    /\ UNCHANGED <<hasCurrent, pkg, fileVars, excludedFilenames, reqVars, modules,
                   buildVars, pheap, packages, packageList, contents,
                   contentsChanged, settings>>

\* Packager.close() and writeContentsFile, lines 1629-1633 and 2404-2428.
\* Whoever runs the definitions may call it after an exception as well; the
\* exception stays what ended the run.
close ==
    /\ pc = "idle"
    /\ last' = [op |-> "close"]
    /\ disk' = IF contentsChanged
               THEN [disk EXCEPT !.contentsFile = savedContentsFile(contents)]
               ELSE disk
    /\ notify' = {}
    /\ err' = err
    /\ UNCHANGED <<hasCurrent, pkg, fileVars, excludedFilenames, reqVars, modules,
                   buildVars, pheap, packages, packageList, contents,
                   contentsChanged, settings>>

----------------------------------------------------------------------------
(* The definitions run: files *)

MaxFiles    == 2   \* file and dir directives are given while fewer files are known
MaxExcludes == 1   \* exclude directives per package
MaxPackages == 1   \* packages begun in a run

NoFiles == FilesCall(<< >>, None, NoName, "", None, None, FALSE)
OneFile(dir, parts) == [NoFiles EXCEPT !.filenames = <<FN(dir, parts)>>]

\* The file() directives of the definitions.
FileCalls ==
    { OneFile("", <<"a", "prc">>),
      OneFile("", <<"a", "pre">>),
      [OneFile("", <<"a", "prc">>) EXCEPT !.newDir = "imported_maps"],
      OneFile("", <<"readme", "txt">>),
      [OneFile("sub", <<"readme", "txt">>) EXCEPT !.newName = FN("", <<"readme", "txt">>)],
      OneFile("", <<"app", "so">>),
      OneFile("", <<"libpanda", "so">>),
      [OneFile("", <<"app", "so">>) EXCEPT !.newName = FN("", <<"libfoo", "so">>)],
      OneFile("", <<"m", "bam">>),
      OneFile("", <<"*", "txt">>),
      OneFile("", <<"missing", "txt">>) }

DirCalls == { <<FN("", <<"data">>), None>>, <<FN("", <<"data">>), "True">> }

PackageKinds == { <<"lib", FALSE, FALSE>>, <<"lib", FALSE, TRUE>> }

NoKw == RequireKw(FALSE, None, FALSE, None, FALSE)

\* The definitions considered open a package, give its config, exclude and
\* require directives, then its files, and end it.
NoFilesYet == objs = << >>

\* A package is begun once (or, by mistake, twice in a row).
BeginNow(k) ==
    /\ Len(packageList) < MaxPackages
    /\ hasCurrent => (pkg = NewPackage(k[1], k[2], k[3]) /\ NoFilesYet
                        /\ requires = << >> /\ excludedFilenames = << >>)

Files ==
    \/ \E k \in PackageKinds : BeginNow(k) /\ beginPackage(k[1], k[2], k[3])
    \/ \E c \in FileCalls : Len(objs) < MaxFiles /\ do_file(c)
    \/ \E c \in DirCalls : Len(objs) < MaxFiles /\ do_dir(c[1], c[2])
    \/ NoFilesYet /\ Len(excludedFilenames) < MaxExcludes
          /\ do_exclude("", Glob("", TRUE, "txt", FALSE))
    \/ NoFilesYet /\ excludedFilenames = << >> /\ requires = << >>
          /\ do_config("platform_specific" :> "False")
    \/ NoFilesYet /\ requires = << >> /\ do_require(<<"base">>, NoKw, AllKeys)

Install ==
    \/ installModules
    \/ addImplicitDependenciesPosix
    \/ addRealFiles
    \/ addModelFiles
    \/ writePackage
    \/ installSolo

Next ==
    \/ Files
    \/ endPackage(AllKeys)
    \/ Install
    \/ (~hasCurrent \/ err # None) /\ close

Spec == Init /\ [][Next]_vars

----------------------------------------------------------------------------
(* The definitions run: executables and their libraries *)

\* The file() directives of definitions that package executables.
PassCalls ==
    { OneFile("", <<"app", "so">>),
      OneFile("/usr/lib", <<"libbar", "so">>),
      [OneFile("", <<"app", "so">>) EXCEPT !.newName = FN("", <<"libfoo", "so">>)],
      OneFile("", <<"readme", "txt">>) }

FilesPass ==
    \/ \E k \in PackageKinds : BeginNow(k) /\ beginPackage(k[1], k[2], k[3])
    \/ \E c \in PassCalls : Len(objs) < MaxFiles /\ do_file(c)
    \/ NoFilesYet /\ requires = << >> /\ do_require(<<"ext">>, NoKw, AllKeys)

NextPass ==
    \/ FilesPass
    \/ endPackage(AllKeys)
    \/ Install
    \/ (~hasCurrent \/ err # None) /\ close

\* Definitions that build the same packages again and again in one run.
MaxRebuilds == 3

RebuildKinds == { <<"lib", FALSE, FALSE>>, <<"app", TRUE, FALSE>> }

RebuildCalls ==
    { OneFile("", <<"readme", "txt">>), OneFile("", <<"m", "bam">>) }

Rebuilds ==
    \/ \E k \in RebuildKinds :
          Len(packageList) < MaxRebuilds /\ beginPackage(k[1], k[2], k[3])
    \/ \E c \in RebuildCalls : Len(objs) < 1 /\ do_file(c)
    \/ pkg.p3dApplication /\ pkg.mainModule = NoMain /\ do_mainModule("main")

NextRebuilds ==
    \/ Rebuilds
    \/ endPackage(AllKeys)
    \/ installModules
    \/ addImplicitDependenciesPosix
    \/ addRealFiles
    \/ addModelFiles
    \/ writePackage
    \/ (~hasCurrent \/ err # None) /\ close

\* Definitions that freeze: one package with or without a platform_specific
\* config, files, a directory, modules and freeze directives.
Freezes ==
    \/ ~hasCurrent /\ packageList = << >> /\ beginPackage("lib", FALSE, FALSE)
    \/ \E v \in {"False", "True"} :
          hasCurrent /\ pkg.configs = << >> /\ do_config("platform_specific" :> v)
    \/ \E c \in { OneFile("", <<"readme", "txt">>), OneFile("", <<"app", "so">>) } :
          Len(objs) < MaxFiles /\ do_file(c)
    \/ Len(objs) < MaxFiles /\ do_dir(FN("", <<"data">>), None)
    \/ hasCurrent /\ modules = << >> /\ do_module("foo")
    \/ hasCurrent /\ pkg.mainModule = NoMain /\ do_mainModule("main")
    \/ \E exe \in BOOLEAN :
          Len(objs) < MaxFiles /\ pkg.platform = None /\ do_freeze("frozen", exe)

NextFreezes ==
    \/ Freezes
    \/ endPackage(AllKeys)
    \/ installModules
    \/ addImplicitDependenciesPosix
    \/ addRealFiles
    \/ addModelFiles
    \/ writePackage
    \/ (~hasCurrent \/ err # None) /\ close

InitFreezes ==
    /\ Init /\ settings.prcEncryptionKey = None /\ settings.prcSignCommand = None
    /\ disk.descs = << >> /\ ~disk.contentsFile.exists

SpecFreezes == InitFreezes /\ [][NextFreezes]_vars

\* The runs of rebuilds start in an empty install directory.
InitRebuilds ==
    /\ Init /\ settings.prcEncryptionKey = None
    /\ disk.descs = << >> /\ ~disk.contentsFile.exists

SpecRebuilds == InitRebuilds /\ [][NextRebuilds]_vars

\* A build that has begun its implicit-dependency pass goes on with it: the
\* pass is one loop of one thread, which nothing interrupts.
InitPass ==
    Init /\ settings.prcEncryptionKey = None /\ ~disk.contentsFile.exists

SpecPass ==
    /\ InitPass
    /\ [][NextPass]_vars
    /\ WF_vars(addImplicitDependenciesPosix)

----------------------------------------------------------------------------
(* The definitions run: requirements and modules *)

MaxRequires == 3   \* require directives are given while fewer are required
MaxBuilds   == 1   \* packages begun in a run

BuildKinds == { <<"lib", FALSE, FALSE>>, <<"app", TRUE, FALSE>>,
                <<"panda3d", FALSE, FALSE>>, <<"font", FALSE, TRUE>> }

VersionKw(v) == RequireKw(TRUE, v, FALSE, None, FALSE)

\* The require() directives of the definitions: names and keywords.
RequireCalls ==
    { << <<"panda3d">>, NoKw >>,
      << <<"panda3d">>, VersionKw("0.9") >>,
      << <<"panda3d">>, RequireKw(FALSE, None, TRUE, RuntimeHost, FALSE) >>,
      << <<"base">>, NoKw >>,
      << <<"ext">>, NoKw >>,
      << <<"old">>, NoKw >>,
      << <<"lib">>, NoKw >>,
      << <<"ghost">>, NoKw >> }

NoModulesYet == modules = << >> /\ pkg.mainModule = NoMain

BeginBuild(k) ==
    /\ Len(packageList) < MaxBuilds
    /\ hasCurrent => (pkg = NewPackage(k[1], k[2], k[3]) /\ NoFilesYet
                        /\ requires = << >> /\ NoModulesYet)

Requirements ==
    \/ \E k \in BuildKinds : BeginBuild(k) /\ beginPackage(k[1], k[2], k[3])
    \/ \E v \in {"0.9", "1.0"} :
          requires = << >> /\ NoModulesYet /\ pkg.configs = << >>
             /\ do_config("version" :> v)
    \/ requires = << >> /\ pkg.mainModule = NoMain /\ do_module("foo")
    \/ requires = << >> /\ pkg.mainModule = NoMain /\ do_excludeModule("foo")
    \/ requires = << >> /\ do_mainModule("main")
    \/ \E c \in RequireCalls, ord \in ListingOrders :
          Len(requires) < MaxRequires /\ do_require(c[1], c[2], ord)
    \/ \E package \in 1..Len(pheap) :
          Len(requires) < MaxRequires /\ requirePackage(package)
    \/ NoFilesYet /\ do_file(OneFile("", <<"main", "py">>))

NextReq ==
    \/ Requirements
    \/ \E ord \in ListingOrders : endPackage(ord)
    \/ Install
    \/ (~hasCurrent \/ err # None) /\ close

InitReq == Init /\ settings.prcEncryptionKey = None /\ disk.descs = << >>
                /\ ~disk.contentsFile.exists

SpecReq == InitReq /\ [][NextReq]_vars

----------------------------------------------------------------------------
(* The definitions run: a package that requires one built before it *)

\* The keyword arguments of the require directive of tools: none, version,
\* host, both, and one that do_require does not know, alone or with host.
SequelKw ==
    { NoKw, VersionKw("1.0"),
      RequireKw(FALSE, None, TRUE, RuntimeHost, FALSE),
      RequireKw(TRUE, "1.0", TRUE, RuntimeHost, FALSE),
      RequireKw(FALSE, None, FALSE, None, TRUE),
      RequireKw(FALSE, None, TRUE, RuntimeHost, TRUE) }

\* lib is built, with or without a version and a library, and then tools,
\* which requires lib.
Sequel ==
    \/ ~hasCurrent /\ packageList = << >> /\ beginPackage("lib", FALSE, FALSE)
    \/ ~hasCurrent /\ Len(packageList) = 1 /\ beginPackage("tools", FALSE, FALSE)
    \/ \E v \in {"0.9", "1.0"} :
          /\ hasCurrent /\ pkg.packageName = "lib" /\ pkg.configs = << >>
          /\ NoFilesYet /\ do_config("version" :> v)
    \/ \E c \in { OneFile("", <<"readme", "txt">>), OneFile("", <<"app", "so">>) } :
          Len(objs) < MaxFiles /\ do_file(c)
    \/ \E kw \in SequelKw, ord \in ListingOrders :
          /\ hasCurrent /\ pkg.packageName = "tools" /\ requires = << >>
          /\ NoFilesYet /\ do_require(<<"lib">>, kw, ord)

NextSequel ==
    \/ Sequel
    \/ endPackage(AllKeys)
    \/ installModules
    \/ addImplicitDependenciesPosix
    \/ addRealFiles
    \/ addModelFiles
    \/ writePackage
    \/ (~hasCurrent \/ err # None) /\ close

InitSequel ==
    /\ Init /\ settings.prcEncryptionKey = None /\ settings.prcSignCommand = None
    /\ disk.descs = << >> /\ ~disk.contentsFile.exists

SpecSequel == InitSequel /\ [][NextSequel]_vars

----------------------------------------------------------------------------
(* The definitions run: a caller that goes on after an exception *)

\* The caller catches the exception of the call just made and goes on.
caught ==
    /\ pc = "idle" /\ err # None /\ last.op # "caught"
    /\ last' = [op |-> "caught", from |-> last.op]
    /\ err' = None
    /\ notify' = {}
    /\ UNCHANGED <<hasCurrent, pkg, fileVars, excludedFilenames, reqVars, modules,
                   buildVars, packagerVars>>

MaxSequel == 2   \* packages begun in a run that goes on after the first

RecoverKinds == { <<"app", TRUE, FALSE>>, <<"font", FALSE, TRUE>> }

\* An application with or without its main module, or a solo package with
\* one or two files, is built; after it, or after a caught exception, the
\* next package is begun.
Recovers ==
    \/ \E k \in RecoverKinds :
          /\ ~hasCurrent /\ packageList = << >> /\ last.op = "setup"
          /\ beginPackage(k[1], k[2], k[3])
    \/ /\ hasCurrent /\ pkg.p3dApplication /\ pkg.mainModule = NoMain
       /\ do_mainModule("main")
    \/ \E c \in { OneFile("", <<"readme", "txt">>), OneFile("", <<"notes", "txt">>),
                  OneFile("", <<"main", "py">>) } :
          Len(objs) < MaxFiles /\ do_file(c)
    \/ /\ Len(packageList) < MaxSequel
       /\ (~hasCurrent /\ Len(packageList) = 1) \/ last.op = "caught"
       /\ beginPackage("next", FALSE, FALSE)

NextRecovers ==
    \/ Recovers
    \/ caught
    \/ endPackage(AllKeys)
    \/ installModules
    \/ addImplicitDependenciesPosix
    \/ addRealFiles
    \/ addModelFiles
    \/ writePackage
    \/ installSolo
    \/ (~hasCurrent \/ err # None) /\ close

InitRecovers ==
    /\ Init /\ settings.prcEncryptionKey = None /\ settings.prcSignCommand = None
    /\ disk.descs = << >> /\ ~disk.contentsFile.exists

SpecRecovers == InitRecovers /\ [][NextRecovers]_vars

----------------------------------------------------------------------------
(* The definitions run: directives inside and outside of a package *)

\* A directive is given where no package is open, or as the first
\* directive of a package.
OneDirective ==
    hasCurrent => /\ NoFilesYet /\ requires = << >> /\ NoModulesYet
                  /\ pkg.configs = << >> /\ excludedFilenames = << >>
                  /\ pkg.platform = None

Directives ==
    \/ OneDirective /\ do_config("version" :> "1.0")
    \/ \E ord \in ListingOrders :
          OneDirective /\ do_require(<<"base">>, NoKw, ord)
    \/ OneDirective /\ do_module("foo")
    \/ OneDirective /\ do_renameModule("foo", "bar")
    \/ OneDirective /\ do_excludeModule("foo")
    \/ OneDirective /\ do_mainModule("main")
    \/ \E exe \in BOOLEAN : OneDirective /\ do_freeze("frozen", exe)
    \/ \E c \in { OneFile("", <<"readme", "txt">>), OneFile("", <<"*", "txt">>) } :
          OneDirective /\ do_file(c)
    \/ OneDirective /\ do_exclude("", Glob("", TRUE, "txt", FALSE))
    \/ OneDirective /\ do_dir(FN("", <<"data">>), None)
    \/ \E package \in 1..Len(pheap) : OneDirective /\ requirePackage(package)

NextOutside ==
    \/ ~hasCurrent /\ Len(packageList) < MaxSequel
          /\ beginPackage("lib", FALSE, FALSE)
    \/ Directives
    \/ endPackage(AllKeys)
    \/ installModules
    \/ addImplicitDependenciesPosix
    \/ addRealFiles
    \/ addModelFiles
    \/ writePackage
    \/ (~hasCurrent \/ err # None) /\ close

InitOutside ==
    /\ Init /\ settings.prcEncryptionKey = None /\ settings.prcSignCommand = None
    /\ disk.descs = << >> /\ ~disk.contentsFile.exists

SpecOutside == InitOutside /\ [][NextOutside]_vars

----------------------------------------------------------------------------
(* The definitions run: file directives with several names *)

MaxNamed == 4   \* file directives are given while fewer files are known

TwoFiles(f, g) == [NoFiles EXCEPT !.filenames = <<f, g>>]

\* file() directives with one or two names, globs, a program file, a
\* target name and text.
AddFilesCalls ==
    { OneFile("", <<"readme", "txt">>),
      TwoFiles(FN("", <<"m", "bam">>), FN("", <<"*", "txt">>)),
      TwoFiles(FN("", <<"*", "prc">>), FN("", <<"m", "bam">>)),
      TwoFiles(FN("", <<"tool", "exe">>), FN("", <<"readme", "txt">>)),
      TwoFiles(FN("", <<"notes", "txt">>), FN("", <<"tool", "exe">>)),
      TwoFiles(FN("", <<"a", "pre">>), FN("", <<"main", "py">>)),
      [OneFile("", <<"*", "txt">>) EXCEPT !.newName = FN("", <<"all", "txt">>)],
      [TwoFiles(FN("", <<"a", "prc">>), FN("", <<"b", "prc">>))
          EXCEPT !.newName = FN("", <<"c", "prc">>)],
      [NoFiles EXCEPT !.newName = FN("", <<"none", "txt">>)],
      [OneFile("sub", <<"readme", "txt">>) EXCEPT !.newName = FN("", <<"sub", "txt">>)],
      [OneFile("", <<"gen", "txt">>) EXCEPT !.text = "hello"],
      [TwoFiles(FN("", <<"gen", "prc">>), FN("", <<"gen2", "prc">>))
          EXCEPT !.text = "hello"],
      [OneFile("", <<"*", "prc">>) EXCEPT !.text = "hello"] }

NextAddFiles ==
    \/ ~hasCurrent /\ packageList = << >> /\ beginPackage("lib", FALSE, FALSE)
    \/ \E c \in AddFilesCalls :
          hasCurrent /\ Len(objs) < MaxNamed /\ do_file(c)

InitAddFiles ==
    /\ Init /\ settings.prcEncryptionKey = None /\ settings.prcSignCommand = None
    /\ disk.descs = << >> /\ ~disk.contentsFile.exists

SpecAddFiles == InitAddFiles /\ [][NextAddFiles]_vars

----------------------------------------------------------------------------
(* Comparing versions: __makeVersionTuple on its own *)

MaxVersionLen == 3   \* version strings of up to this many characters

VersionAlphabet == {"0", "1", "9", ".", "a"}

VersionExamples ==
    { <<"1", ".", "2", ".", "1", "0">>, <<"1", ".", "2", ".", "9">>,
      <<"1", ".", "2">>, <<"1", ".", "1", "0">>, <<"1", ".", "9">>,
      <<"1", ".", "0", "0">> }

VersionInputs ==
    VersionExamples
      \cup UNION { [1..n -> VersionAlphabet] : n \in 0..MaxVersionLen }

\* Two versions are given, as __sortImportPackages would meet them.
InitVersions ==
    /\ InitState
    /\ settings = Settings(RuntimeHost, None, None)
    /\ disk.descs = << >> /\ ~disk.contentsFile.exists
    /\ \E a, b \in VersionInputs : last = [op |-> "versions", a |-> a, b |-> b]

\* __sortImportPackages, lines 1942-1946, on the two: their version
\* tuples are made and compared.
compareVersions ==
    /\ last.op = "versions"
    /\ last' = [op |-> "compared", a |-> last.a, b |-> last.b,
                ta |-> makeVersionTuple(last.a),
                tb |-> makeVersionTuple(last.b),
                cmp |-> cmpVersion(last.a, last.b)]
    /\ UNCHANGED <<hasCurrent, pkg, fileVars, excludedFilenames, reqVars,
                   modules, buildVars, packagerVars, notify, err>>

NextVersions == compareVersions

SpecVersions == InitVersions /\ [][NextVersions]_vars

----------------------------------------------------------------------------
(* Making a PackFile: PackFile.__init__ on its own *)

\* The values of an optional flag argument: not given, True, False.
Tri == {None, "True", "False"}

PackFileSources ==
    { FN("", <<"snd", "ogg", "pz">>), FN("", <<"t", "png", "pz">>),
      FN("", <<"m", "bam", "pz">>), FN("", <<"readme", "txt", "pz">>),
      FN("", <<"a", "pz">>), FN("", <<"x", "pz", "pz">>),
      FN("", <<"readme", "txt">>), FN("/tex", <<"t", "png">>),
      FN("", <<"snd", "ogg">>),
      FN("", <<"libfoo", "so">>), FN("", <<"libfoo", "so", "pz">>) }

PackFileTargets ==
    { NoName, FN("data", <<"b", "jpg", "pz">>), FN("", <<"b", "txt">>),
      FN("", <<"c", "mp3", "pz">>) }

PackFileInputs ==
    { [FileArgs(f, n, e) EXCEPT !.compress = c, !.executable = x,
                                !.extract = t, !.platformSpecific = ps,
                                !.unprocessed = u] :
        f \in PackFileSources, n \in PackFileTargets, e \in BOOLEAN,
        c \in Tri, x \in Tri, t \in Tri, ps \in Tri, u \in Tri }

\* The arguments of one PackFile are given.
InitPackFile ==
    /\ InitState
    /\ settings = Settings(RuntimeHost, None, None)
    /\ disk.descs = << >> /\ ~disk.contentsFile.exists
    /\ \E a \in PackFileInputs : last = [op |-> "arguments", a |-> a]

\* PackFile.__init__, lines 36-89, on them.
makePackFile ==
    /\ last.op = "arguments"
    /\ last' = [op |-> "PackFile", a |-> last.a, file |-> PackFile(last.a)]
    /\ UNCHANGED <<hasCurrent, pkg, fileVars, excludedFilenames, reqVars,
                   modules, buildVars, packagerVars, notify, err>>

NextPackFile == makePackFile

SpecPackFile == InitPackFile /\ [][NextPackFile]_vars

----------------------------------------------------------------------------
(* Properties: files *)

\* A package has been built: endPackage returned the finished package.
Built == last.op = "endPackage" /\ err = None /\ pc = "idle" /\ ~hasCurrent

\* C1: in every state of a package, before and during close(), no two
\* PackFile objects of package.files have the same target name (newName).
UniqueTargetNames ==
    \A i, j \in 1..Len(files) :
        i # j => File(i).newName # File(j).newName

\* The calls of addFile looked at in every state: source names, target
\* names and the explicit flag.
ProbeSources ==
    { FN("", <<"a", "prc">>), FN("", <<"a", "pre">>), FN("", <<"readme", "txt">>),
      FN("sub", <<"readme", "txt">>), FN("", <<"notes", "txt">>),
      FN("", <<"app", "so">>), FN("", <<"libfoo", "so">>),
      FN("/tex", <<"t", "png">>), FN("data", <<"notes", "txt">>) }
ProbeNames ==
    { NoName, FN("", <<"readme", "txt">>), FN("imported_maps", <<"t", "png">>) }
ProbeArgs ==
    { FileArgs(f, n, e) : f \in ProbeSources, n \in ProbeNames, e \in BOOLEAN }

addFileNow(a) ==
    addFile(FileTable, a, skipFilenames, excludedFilenames,
            pkg.platformSpecificConfig)

\* C2: at most one PackFile of package.files has a given source path, and
\* addFile with a source path that is already known changes nothing of
\* files, sourceFilenames and targetFilenames and logs no warning.
AddFileIdempotent ==
    /\ \A i, j \in 1..Len(files) : i # j => File(i).filename # File(j).filename
    /\ \A i, j \in DOMAIN sourceFilenames :
          sourceFilenames[i] = sourceFilenames[j] => i = j
    /\ \A a \in ProbeArgs :
          PackFile(a).filename \in DOMAIN sourceFilenames
             => addFileNow(a) = FileTable

\* C2's case: a file directive named one file whose source path was known
\* already, and nothing was added and nothing logged.
AddedTwice ==
    /\ last.op = "file" /\ err = None /\ hasCurrent
    /\ Len(last.call.filenames) = 1
    /\ last.call.filenames[1].parts[1] # "*"
    /\ last.before = Len(objs) /\ last.before > 0
    /\ PackFileFilename(FileArgs(last.call.filenames[1], NoName, TRUE))
           \in DOMAIN sourceFilenames
    /\ notify = {}

\* C3: a file whose source path is not known yet and whose target name is
\* the target name of a PackFile already in package.files is never taken
\* into the package: files and targetFilenames stay as they are and a
\* 'shadowing' warning is logged.
ShadowingRejected ==
    [][ \A k \in 1..Len(objs') :
           ( /\ k > Len(objs)
             /\ hasCurrent /\ hasCurrent'
             /\ \E i \in 1..Len(files) : File(i).newName = objs'[k].newName )
           => ( /\ files' = files
                /\ targetFilenames' = targetFilenames
                /\ \E w \in notify' : w.kind = "shadowing" ) ]_vars

\* The files an explicit PackFile may be, beside those of the package.
ExplicitProbes ==
    { PackFile(FileArgs(f, NoName, TRUE)) :
        f \in { FN("", <<"libc", "so", "6">>), FN("", <<"kernel32", "dll">>),
                FN("", <<"readme", "txt">>), FN("", <<"app", "so">>),
                FN("data", <<"notes", "txt">>) } }

\* C4: an explicit PackFile is excluded only when its target name is in
\* skipFilenames, whatever the system lists, the exclude patterns and the
\* platform_specific setting; a non-explicit file that an exclude pattern
\* matches is excluded.
ExplicitNeverExcluded ==
    /\ \A file \in ExplicitProbes \cup { objs[k] : k \in 1..Len(objs) } :
          file.explicit => (Excluded(file) <=> file.newName \in skipFilenames)
    /\ \A k \in 1..Len(objs) :
          ( /\ ~objs[k].explicit
            /\ \E i \in 1..Len(excludedFilenames) :
                  ExcludeMatches(excludedFilenames[i], objs[k].filename) )
          => Excluded(objs[k])

\* C4's case: an exclude pattern matches both an explicit file of the
\* package, which stays, and a non-explicit one, which is excluded.
ExplicitKept ==
    /\ hasCurrent
    /\ \E k \in 1..Len(objs) :
          /\ objs[k].explicit /\ ~Excluded(objs[k])
          /\ \E i \in 1..Len(excludedFilenames) :
                ExcludeMatches(excludedFilenames[i], objs[k].filename)
    /\ \E k \in 1..Len(objs) : ~objs[k].explicit /\ Excluded(objs[k])

\* C5: when installMultifile has completed, no excluded PackFile has been
\* written as a subfile of the archive or listed as a component or an
\* extract.
ExcludedNeverWritten ==
    (Built /\ ~pkg.solo) =>
        \A i \in 1..Len(files) :
            Excluded(File(i)) =>
                /\ ~findSubfile(multifile, File(i).newName)
                /\ \A k \in 1..Len(components) :
                      components[k].type = "c" => components[k].name # File(i).newName
                /\ \A k \in 1..Len(extracts) : extracts[k] # File(i).newName

----------------------------------------------------------------------------
(* Properties: requirements and modules *)

\* A package of the given name (and version) is on the requires list.
requiresNamed(reqs, heap, name) ==
    \E k \in 1..Len(reqs) : heap[reqs[k]].packageName = name
requiresVersion(reqs, heap, name, version) ==
    \E k \in 1..Len(reqs) :
        heap[reqs[k]].packageName = name /\ heap[reqs[k]].version = version

\* The step is a require directive, inside a package, that names panda3d
\* with a version other than the running one.
RequireOtherPanda ==
    /\ Idle /\ hasCurrent
    /\ last'.op = "require" /\ last'.names = <<"panda3d">>
    /\ last'.kw.hasVersion /\ last'.kw.version # RuntimeVersion
    /\ ~last'.kw.hasHost

\* A require of panda3d with no version does what a require with the
\* running version does.
DefaultIsRunningVersion ==
    (Idle /\ hasCurrent) =>
        \A ord \in ListingOrders :
            requireResult(Resolver, ReqTable, disk.imports, ord, <<"panda3d">>, NoKw)
              = requireResult(Resolver, ReqTable, disk.imports, ord, <<"panda3d">>,
                              VersionKw(RuntimeVersion))

PandaMismatch ==
    /\ pkg.packageName = "panda3d"
    /\ \/ ( IF "version" \in DOMAIN pkg.configs THEN pkg.configs["version"]
            ELSE IF pkg.version = None THEN RuntimeVersion ELSE pkg.version )
             # RuntimeVersion
       \/ ( IF truthy(pkg.host) THEN pkg.host ELSE settings.host ) # RuntimeHost

\* C7: closing a package named panda3d whose version or host differs from
\* the running Panda3D's raises PackagerError before an archive, a
\* descriptor or a contents entry is written.
MismatchedPandaFails ==
    [][ (Idle /\ hasCurrent /\ last'.op = "endPackage" /\ PandaMismatch)
          => ( /\ err' = "PackagerError"
               /\ pc' = "idle"
               /\ hasCurrent'
               /\ UNCHANGED <<disk, contents, contentsChanged, packageList,
                              packages, multifile, components>> ) ]_vars

\* C7's case: a panda3d package with the version config 0.9 was closed,
\* and the close raised with nothing written.
PandaCloseFailed ==
    /\ last.op = "endPackage" /\ err = "PackagerError" /\ hasCurrent
    /\ pkg.packageName = "panda3d" /\ pkg.version = "0.9"
    /\ disk.archives = << >> /\ contents = << >>

\* C8: an application whose close() got as far as installing it, or
\* completed, has a package named panda3d on its requires list; a close()
\* that could not resolve panda3d raised instead.
AppRequiresPanda ==
    (pkg.p3dApplication /\ last.op = "endPackage" /\ err = None)
        => requiresNamed(requires, pheap, "panda3d")

\* C8's case: an application was built whose requires list holds panda3d
\* alone.
AppBuilt ==
    /\ Built /\ pkg.p3dApplication
    /\ Len(requires) = 1
    /\ requiresNamed(requires, pheap, "panda3d")

\* The place of a package on a requires list.
position(q, reqs) == CHOOSE k \in 1..Len(reqs) : reqs[k] = q

\* The requires list has no duplicates, and the skip sets hold the target
\* names and the module names of every package on it.
RequiresInvariant ==
    /\ \A i, j \in 1..Len(requires) : requires[i] = requires[j] => i = j
    /\ \A k \in 1..Len(requires) :
          /\ pheap[requires[k]].targetFilenames \subseteq skipFilenames
          /\ DOMAIN pheap[requires[k]].moduleNames \subseteq DOMAIN skipModules

\* The step is a call of requirePackage inside a package.
RequirePackageCall == Idle /\ hasCurrent /\ last'.op = "requirePackage"

\* After the step the package required and the members of its own requires
\* list are on the list.
RequiredWithItsOwn ==
    /\ last'.package \in Range(requires')
    /\ Range(pheap[last'.package].requires) \subseteq Range(requires')

\* After the step the members of the required package's own requires list
\* stand before it.
OwnBefore ==
    \A q \in Range(pheap[last'.package].requires) :
        position(q, requires') < position(last'.package, requires')

\* C9, as the code has it: the requires list has no duplicates and the skip
\* sets cover every package on it; a call of requirePackage leaves the
\* package and every member of its own requires list on the list, and when
\* the package was not on the list before the call, its own requirements
\* stand before it.
RequiresFlattened ==
    /\ []RequiresInvariant
    /\ [][ RequirePackageCall =>
             /\ RequiredWithItsOwn
             /\ (~last'.wasRequired => OwnBefore) ]_vars

\* C9, as stated: the same, with the own requirements of the package
\* before it after every call.
RequiresOrdered ==
    /\ []RequiresInvariant
    /\ [][ RequirePackageCall => (RequiredWithItsOwn /\ OwnBefore) ]_vars

\* C9's case: a package already on the list was required again, and one
\* of its own requirements came onto the list behind it.
RequiredBehind ==
    /\ last.op = "requirePackage" /\ last.wasRequired /\ err = None /\ hasCurrent
    /\ \E q \in Range(pheap[last.package].requires) :
          position(q, requires) > position(last.package, requires)

\* The module tables of the package built: moduleNames and, for a package
\* that writes one, the <module> records of its import descriptor.
exportsModule(m) ==
    \/ m \in moduleNames
    \/ /\ ~pkg.p3dApplication /\ ~pkg.solo
       /\ importKey(pkg) \in DOMAIN disk.imports
       /\ m \in DOMAIN disk.imports[importKey(pkg)].modules

----------------------------------------------------------------------------
(* Properties: resolution *)

\* The packages __scanPackageDir reads when "old" is asked for with no
\* version and no platform: [r, list].
oldCandidates ==
    readCandidates(Resolver, disk.imports, AllKeys,
                   ListIn(AllKeys, ScanMatches(disk.imports, "old", None, None), 1),
                   1, 1)

\* The step is a require directive for "old" with no version, answered
\* by a scan of the install directory, that succeeds.
RequireOldScanned ==
    /\ Idle /\ hasCurrent
    /\ last'.op = "require" /\ last'.names = <<"old">> /\ last'.kw = NoKw
    /\ err' = None
    /\ <<"old", Platform, None, None>> \notin DOMAIN packages
    /\ ~requiresNamed(requires, pheap, "old")

\* C11: a require of "old" with no version, of which versions 1.0 and
\* 1.10 have import descriptors, puts on the requires list a version that
\* no candidate compatible with the packages already required exceeds
\* under the version-tuple order.
GreatestVersionChosen ==
    [][ RequireOldScanned =>
          \A i \in 1..Len(oldCandidates.list) :
              packageIsValid(oldCandidates.r.pheap, oldCandidates.list[i],
                             requires, TRUE)
                => \E k \in 1..Len(requires') :
                      /\ pheap'[requires'[k]].packageName = "old"
                      /\ cmpVersion(Spelling[oldCandidates.list[i].version],
                                    Spelling[pheap'[requires'[k]].version]) <= 0
      ]_vars

isDigit(c) == c \in DOMAIN Digits

\* The first position at which two strings both have a character and
\* differ, or 0.
firstDifference(a, b) ==
    LET ps == { p \in 1..Len(a) : p <= Len(b) /\ a[p] # b[p] }
    IN  IF ps = {} THEN 0 ELSE CHOOSE p \in ps : \A q \in ps : p <= q

\* Where the run of digits that reaches up to position p starts.
runStart(a, p) ==
    CHOOSE s \in 1..p :
        /\ \A i \in s..(p - 1) : isDigit(a[i])
        /\ s = 1 \/ ~isDigit(a[s - 1])

\* The run of digits of a that starts at position s.
digitRun(a, s) ==
    SubSeq(a, s, (CHOOSE e \in s..(Len(a) + 1) :
                     /\ \A i \in s..(e - 1) : isDigit(a[i])
                     /\ e = Len(a) + 1 \/ ~isDigit(a[e])) - 1)

\* A string of digits without its leading zeros.
RECURSIVE stripZeros(_)
stripZeros(w) ==
    IF Len(w) > 0 /\ w[1] = "0" THEN stripZeros(Tail(w)) ELSE w

\* One string of digits denotes a greater number than another: it has
\* more digits after the leading zeros, or as many and a greater one first.
greaterNumber(x, y) ==
    LET u == stripZeros(x)
        v == stripZeros(y)
    IN  \/ Len(u) > Len(v)
        \/ /\ Len(u) = Len(v)
           /\ \E p \in 1..Len(u) :
                 /\ \A q \in 1..(p - 1) : u[q] = v[q]
                 /\ Digits[u[p]] > Digits[v[p]]

\* The orders the examples give: <<greater, smaller>>.
VersionPairs ==
    { << <<"1", ".", "2", ".", "1", "0">>, <<"1", ".", "2", ".", "9">> >>,
      << <<"1", ".", "2", ".", "9">>, <<"1", ".", "2">> >>,
      << <<"1", ".", "2", ".", "1", "0">>, <<"1", ".", "2">> >>,
      << <<"1", ".", "1", "0">>, <<"1", ".", "9">> >> }

\* The examples compare as given.
ExamplesOrdered ==
    /\ <<last.a, last.b>> \in VersionPairs => last.cmp = 1
    /\ <<last.b, last.a>> \in VersionPairs => last.cmp = -1

\* Two versions that differ first inside a run of digits compare as the
\* numbers the two runs denote, when these differ.
DigitRunsNumeric ==
    LET p == firstDifference(last.a, last.b) IN
    (p # 0 /\ isDigit(last.a[p]) /\ isDigit(last.b[p])) =>
        LET x == digitRun(last.a, runStart(last.a, p))
            y == digitRun(last.b, runStart(last.a, p))
        IN  /\ greaterNumber(x, y) => last.cmp = 1
            /\ greaterNumber(y, x) => last.cmp = -1

properPrefix(a, b) == Len(a) < Len(b) /\ SubSeq(b, 1, Len(a)) = a

\* b adds zeros to a, which ends in a run of zeros.
moreZeros(a, b) ==
    /\ Len(a) > 0
    /\ \A i \in runStart(a, Len(a) + 1)..Len(b) : b[i] = "0"
    /\ runStart(a, Len(a) + 1) <= Len(a)

\* C12, as the code has it: the tuples of the examples compare as given
\* ("1.2.10" > "1.2.9" > "1.2", "1.10" > "1.9"); two versions that differ
\* first in a run of digits compare as the numbers of the two runs; a
\* version that is a proper prefix of another is never the greater, and is
\* the smaller unless the other only adds zeros to a final run of zeros
\* ("1.0" and "1.00" make equal tuples).
VersionOrder ==
    last.op = "compared" =>
        /\ ExamplesOrdered
        /\ DigitRunsNumeric
        /\ properPrefix(last.a, last.b) =>
              last.cmp = (IF moreZeros(last.a, last.b) THEN 0 ELSE -1)

\* C12, as stated: the same, with every proper prefix the smaller.
VersionPrefixSmaller ==
    last.op = "compared" =>
        /\ ExamplesOrdered
        /\ DigitRunsNumeric
        /\ properPrefix(last.a, last.b) => last.cmp = -1

\* C12's case: "1.0" and "1.00" were compared and came out equal, their
\* tuples being ('', 1, '.', 0) both.
ZerosCompared ==
    /\ last.op = "compared"
    /\ last.a = <<"1", ".", "0">> /\ last.b = <<"1", ".", "0", "0">>
    /\ last.ta = <<strWord(<< >>), intWord(1), strWord(<<".">>), intWord(0)>>
    /\ last.tb = last.ta
    /\ last.cmp = 0

\* The first package named panda3d among the packages ids, as a sequence
\* of one record, or the empty sequence.
firstPanda(heap, ids) ==
    LET ks == { k \in 1..Len(ids) : heap[ids[k]].packageName = "panda3d" }
    IN  IF ks = {} THEN << >>
        ELSE <<heap[ids[CHOOSE k \in ks : \A j \in ks : k <= j]]>>

\* The panda3d of a candidate: the candidate, or the first panda3d of
\* its requires list.
ownPanda(heap, c) ==
    IF heap[c].packageName = "panda3d" THEN <<heap[c]>>
    ELSE firstPanda(heap, heap[c].requires)

\* C13: for every package the resolver holds, taken as the candidate, and
\* the requires list of the package being defined: __packageIsValid accepts
\* the candidate when the list holds no panda3d, and when the candidate's
\* panda3d and the list's have the same version; it rejects the candidate
\* when both exist and their versions differ.
ValidityRule ==
    hasCurrent =>
        \A c \in 1..Len(pheap) :
            LET valid == packageIsValid(pheap, pheap[c], requires, TRUE)
                p1    == ownPanda(pheap, c)
                p2    == firstPanda(pheap, requires)
            IN  /\ p2 = << >> => valid
                /\ (p1 # << >> /\ p2 # << >> /\ p1[1].version = p2[1].version)
                      => valid
                /\ (p1 # << >> /\ p2 # << >> /\ p1[1].version # p2[1].version)
                      => ~valid

\* The packages __scanPackageDir reads when "base" is asked for with no
\* version and no platform: [r, list].
baseCandidates ==
    readCandidates(Resolver, disk.imports, AllKeys,
                   ListIn(AllKeys, ScanMatches(disk.imports, "base", None, None), 1),
                   1, 1)

\* C13's case: with panda3d 0.9 required, a require of "base", whose
\* descriptor asks for panda3d 1.0, found no acceptable candidate: the one
\* read from the descriptor was rejected.
BaseRejected ==
    /\ last.op = "require" /\ last.names = <<"base">>
    /\ err = "PackagerError"
    /\ requiresVersion(requires, pheap, "panda3d", "0.9")
    /\ Len(baseCandidates.list) = 1
    /\ ~packageIsValid(baseCandidates.r.pheap, baseCandidates.list[1],
                       requires, TRUE)

\* The versions of the packages named panda3d on a requires list.
pandaVersions(reqs, heap) ==
    { heap[reqs[k]].version :
        k \in { j \in 1..Len(reqs) : heap[reqs[j]].packageName = "panda3d" } }

\* C14: a require directive on a package whose requires list holds at
\* most one version of panda3d leaves at most one version of panda3d on
\* the list, whether findPackage answers from the install directory or
\* from the table Packager.packages.
OnePandaVersion ==
    [][ ( /\ Idle /\ hasCurrent
          /\ last'.op = "require"
          /\ Cardinality(pandaVersions(requires, pheap)) <= 1 )
          => Cardinality(pandaVersions(requires', pheap')) <= 1 ]_vars

----------------------------------------------------------------------------
(* Properties: descriptors and the contents index *)

\* The step is the one that writes a package that has a descriptor.
WritesDescriptor ==
    pc = "write" /\ pc' = "idle" /\ err' = None /\ ~pkg'.p3dApplication

\* C15: when a package is written, what readDescFile reads from the new
\* descriptor - the patch version and the patch records, in order - is
\* what it read from the descriptor that was there before for the same
\* name, platform and version; when there was none, or none that loads,
\* it is '1' and the empty list.
PatchesCarried ==
    [][ WritesDescriptor =>
          /\ packageDesc(pkg') \in DOMAIN disk'.descs
          /\ disk'.descs[packageDesc(pkg')].readable
          /\ readDescFile(disk'.descs, packageDesc(pkg'))
               = readDescFile(disk.descs, packageDesc(pkg'))
          /\ ( \/ packageDesc(pkg') \notin DOMAIN disk.descs
               \/ ~disk.descs[packageDesc(pkg')].readable )
               => readDescFile(disk'.descs, packageDesc(pkg'))
                    = [patchVersion |-> "1", patches |-> << >>]
      ]_vars

\* C15's case: "lib" was rebuilt over the descriptor an earlier run left,
\* and the new descriptor reads as the old did: patch version 3 and the
\* two patches.
PatchesKept ==
    /\ Built /\ pkg.packageName = "lib" /\ ~truthy(pkg.platform)
    /\ packageDesc(pkg) \in DOMAIN disk.descs
    /\ disk.descs[packageDesc(pkg)].patch_version = None
    /\ readDescFile(disk.descs, packageDesc(pkg))
         = [patchVersion |-> "3", patches |-> <<"patch1", "patch2">>]

\* The step completes the build of a package that gets an entry in the
\* contents: a package that is not an application and, when solo, has a
\* file to install.
EntryRecorded ==
    /\ pc \in {"write", "installSolo"} /\ pc' = "idle" /\ err' = None
    /\ ~pkg'.p3dApplication
    /\ pkg'.solo => includedFiles(1) # << >>

\* The step is a call of Packager.close().
CloseCall == pc = "idle" /\ last'.op = "close"

LastBuildWins ==
    /\ [][ EntryRecorded =>
             LET k == <<pkg'.packageName, pkg'.platform, pkg'.version>> IN
             /\ DOMAIN contents' = DOMAIN contents \cup {k}
             /\ getKey(contents'[k]) = k
             /\ contents'[k].solo = pkg'.solo
             /\ contents'[k].descFile.stamp = "now"
             /\ \A j \in DOMAIN contents \ {k} : contents'[j] = contents[j]
       ]_vars
    /\ [][ ~EntryRecorded => contents' = contents ]_vars
    /\ [](\A k \in DOMAIN contents : getKey(contents[k]) = k)
    /\ [](\A x, y \in disk.contentsFile.packages :
             getKey(loadXml(x)) = getKey(loadXml(y)) => x = y)

\* C17's case: "lib" was rebuilt in an install directory whose contents
\* listed it: its entry is the new one, and the entry of "tools" is the
\* one that was loaded.
EntryReplaced ==
    /\ Built
    /\ <<"lib", None, None>> \in DOMAIN contents
    /\ contents[<<"lib", None, None>>].descFile.stamp = "now"
    /\ <<"tools", Platform, "1.0">> \in DOMAIN contents
    /\ contents[<<"tools", Platform, "1.0">>]
         = readContentsFile(PriorContents)[<<"tools", Platform, "1.0">>]

\* The subfiles of an archive on disk that carry a name.
subfilesNamed(ar, name) ==
    { i \in 1..Len(disk.archives[ar]) : disk.archives[ar][i].name = name }

\* The archive of the application just built holds its main module, frozen,
\* and the application manifest p3d_info.xml, and is executable on disk.
AppArchive ==
    LET ar == packageFilename(pkg)
    IN  /\ ar \in DOMAIN disk.archives
        /\ \E i \in subfilesNamed(ar, FN("", <<pkg.mainModule[2], "pyo">>)) :
               disk.archives[ar][i].source = FN("<frozen>", <<pkg.mainModule[2]>>)
        /\ subfilesNamed(ar, FN("", <<"p3d_info", "xml">>)) # {}
        /\ ar \in disk.executable

\* The descriptor of the package just built is on disk with one
\* uncompressed_archive and one compressed_archive record.
DescriptorWithArchives ==
    /\ packageDesc(pkg) \in DOMAIN disk.descs
    /\ Len(disk.descs[packageDesc(pkg)].uncompressed_archive) = 1
    /\ Len(disk.descs[packageDesc(pkg)].compressed_archive) = 1

\* C18, as the code has it: once an application has been built, its archive
\* is on disk with the frozen main module and the application manifest in it
\* and is marked executable; no descriptor, no import descriptor and no
\* compressed archive are written for it, and the contents index gets no
\* entry.
ApplicationInstalled ==
    (Built /\ pkg.p3dApplication)
        => /\ AppArchive
           /\ packageDesc(pkg) \notin DOMAIN disk.descs
           /\ [packageFilename(pkg) EXCEPT !.base = @ \o <<"pz">>]
                  \notin DOMAIN disk.archives
           /\ disk.imports = InitialImports
           /\ contents = << >> /\ ~contentsChanged

\* C18 as stated: once an application has been built, its archive is on disk
\* with the frozen module and the application manifest, is executable, and
\* a descriptor with one uncompressed_archive and one compressed_archive
\* record has been written.
ApplicationDescribed ==
    (Built /\ pkg.p3dApplication) => (AppArchive /\ DescriptorWithArchives)

\* C18's case: the application app, with no platform, was built from the
\* one file main.py with the main module main.
AppFromOneFile ==
    /\ Built /\ pkg.p3dApplication /\ pkg.platform = None
    /\ Len(files) = 1 /\ pkg.mainModule = <<"main", "main">>
    /\ AppArchive

\* A library built in the same way does get its descriptor with the two
\* archive records.
LibraryDescribed ==
    (Built /\ ~pkg.p3dApplication /\ ~pkg.solo) => DescriptorWithArchives

\* The files of the current package that are not excluded and are
\* platformSpecific.
platformSpecificFiles ==
    { i \in 1..Len(files) : ~Excluded(File(i)) /\ File(i).platformSpecific }

\* C19: a package closed with no platform_specific config has the host
\* platform as its platform when one of its files that are not excluded is
\* platformSpecific, and no platform when none is; the step that considers
\* the platform is the only one that sets it, and it sets it from the files
\* the package has by then.
PlatformFromFiles ==
    /\ [](( Built /\ pkg.platformSpecificConfig = None)
            => IF platformSpecificFiles # {}
               THEN pkg.platform = Platform ELSE pkg.platform = None)
    /\ [][ IF pc \in {"write", "installSolo"}
              /\ pkg.platformSpecificConfig = None /\ pkg.platform = None
           THEN pkg'.platform =
                    IF platformSpecificFiles # {} THEN Platform ELSE None
           ELSE pkg'.platform \in {pkg.platform, None}
         ]_vars

\* C19's case: a package with a platformSpecific file and no platform_specific
\* config was built, and its platform is the host's.
PlatformSet ==
    /\ Built /\ pkg.platformSpecificConfig = None
    /\ platformSpecificFiles # {}
    /\ pkg.platform = Platform

\* The other case of C19: a package was built whose only platformSpecific
\* files are excluded, and has no platform.
PlatformUnset ==
    /\ Built /\ pkg.platformSpecificConfig = None
    /\ platformSpecificFiles = {}
    /\ \E i \in 1..Len(files) : File(i).platformSpecific
    /\ pkg.platform = None

----------------------------------------------------------------------------
(* Properties: implicit dependencies *)

\* The implicit-dependency pass has just finished: the second loop of
\* installMultifile is about to begin.
PassFinished == pc = "files" /\ idx = 1 /\ err = None

\* The source file that a library named in the dependency listing of a file
\* stands for: the name resolved against the directory of the file, then, as
\* an executable, along the executable path.
dependencyFile(file, name) ==
    PackFileFilename([FileArgs(resolveFilename(name, dirnamePath(file.filename)),
                               getBasename(name), FALSE)
                         EXCEPT !.executable = "True"])

\* The files of the package that come from a source file.
filesFrom(filename) == { i \in 1..Len(files) : File(i).filename = filename }

\* A library was dropped for a collision of target names: another source
\* file holds its target name.
shadowed(lib) ==
    /\ getBasename(lib) \in DOMAIN targetFilenames
    /\ objs[targetFilenames[getBasename(lib)]].filename # lib
    /\ lib \notin DOMAIN sourceFilenames
    /\ filesFrom(lib) = {}

\* C20: when the implicit-dependency pass finishes, every existing library
\* that the dependency listing of a non-excluded executable of the package
\* names, the executables added during the pass included, has been offered
\* to addFile: its source is in sourceFilenames and it is one of the
\* package's files, unless it was dropped because another file holds its
\* target name.
DependenciesClosed ==
    PassFinished =>
        \A i \in 1..Len(files) :
            (File(i).executable /\ ~Excluded(File(i))) =>
                \A k \in 1..Len(Ldd(File(i).filename)) :
                    LET lib == dependencyFile(File(i), Ldd(File(i).filename)[k])
                    IN  exists(lib) =>
                            \/ lib \in DOMAIN sourceFilenames /\ filesFrom(lib) # {}
                            \/ shadowed(lib)

\* C20's case: the pass has finished on a package that named app.so;
\* libfoo.so, which app.so depends on, was added during the pass, and so was
\* libbar.so, which only libfoo.so depends on.
DependencyOfDependency ==
    /\ PassFinished
    /\ filesFrom(FN("/cwd", <<"app", "so">>)) # {}
    /\ filesFrom(FN("/usr/lib", <<"libfoo", "so">>)) # {}
    /\ filesFrom(FN("/usr/lib", <<"libbar", "so">>)) # {}

\* The other case: app.so was stored under the name libfoo.so, and the
\* library libfoo.so it depends on was dropped for that.
DependencyShadowed ==
    /\ PassFinished
    /\ shadowed(FN("/usr/lib", <<"libfoo", "so">>))

\* The implicit-dependency pass is running.
InPass == pc = "dependencies"

\* C21: the implicit-dependency pass ends, also when libraries depend on each
\* other: while it runs no two entries of the package's files have the same
\* source path, the position of the loop is never beyond the end of the list
\* by more than one, and a pass that has begun reaches the end of the list
\* and hands over to the next loop.
PassTerminates ==
    /\ [](InPass => /\ \A i, j \in 1..Len(files) :
                          File(i).filename = File(j).filename => i = j
                    /\ idx <= Len(files) + 1
                    /\ Len(files) <= Cardinality(ExistingFiles))
    /\ (InPass ~> PassFinished)

\* C21's case: the loop has reached the end of a list that holds libfoo.so
\* and libbar.so, which depend on each other, once each.
CycleScanned ==
    /\ InPass /\ idx > Len(files)
    /\ Cardinality(filesFrom(FN("/usr/lib", <<"libfoo", "so">>))) = 1
    /\ Cardinality(filesFrom(FN("/usr/lib", <<"libbar", "so">>))) = 1

----------------------------------------------------------------------------
(* Properties: models and their textures *)

\* The models written to the archive of the package just built.
modelsWritten ==
    { i \in 1..Len(disk.archives[packageFilename(pkg)]) :
        disk.archives[packageFilename(pkg)][i].source.dir = "<stream>" }

\* C22: after installMultifile, every texture that a model written to the
\* archive refers to is in the archive under the name the model was
\* rewritten to use.
TexturesInArchive ==
    (Built /\ ~pkg.solo) =>
        \A i \in modelsWritten :
            LET model == disk.archives[packageFilename(pkg)][i].source
            IN  \A k \in 1..Len(model.textures) :
                    subfilesNamed(packageFilename(pkg), model.textures[k]) # {}

----------------------------------------------------------------------------
(* Properties: the base of the patch chain *)

\* The name of the base that goes with an archive.
baseOf(ar) == [ar EXCEPT !.base = @ \o <<"base">>]

isBase(k) == k.base[Len(k.base)] = "base"

\* The step that writes a package out.
WritesPackage == pc = "write" /\ pc' = "idle"

\* C23: when a package that is no application is written out, an archive
\* already at its path becomes '<archive>.base' if there is no base yet, and
\* the new archive takes its place; a base that exists is never replaced or
\* removed by a build; writing an application creates no base.
BaseKept ==
    /\ [][ \A k \in DOMAIN disk.archives :
              isBase(k) => /\ k \in DOMAIN disk'.archives
                           /\ disk'.archives[k] = disk.archives[k] ]_vars
    /\ [][ WritesPackage =>
            LET ar == packageFilename(pkg')
            IN  /\ disk'.archives[ar] = multifile'
                /\ IF pkg'.p3dApplication
                   THEN \A k \in DOMAIN disk'.archives :
                            isBase(k) => k \in DOMAIN disk.archives
                   ELSE IF baseOf(ar) \in DOMAIN disk.archives
                   THEN disk'.archives[baseOf(ar)] = disk.archives[baseOf(ar)]
                   ELSE IF ar \in DOMAIN disk.archives
                   THEN disk'.archives[baseOf(ar)] = disk.archives[ar]
                   ELSE baseOf(ar) \notin DOMAIN disk'.archives ]_vars
    /\ [](\A k \in DOMAIN disk.archives : isBase(k) => k.dir # << >>)

\* C23's case: a library has been built for the third time in a run, and its
\* base is not the archive the third build replaced.
BuiltThrice ==
    /\ Built /\ ~pkg.p3dApplication /\ Len(packageList) = 3
    /\ baseOf(packageFilename(pkg)) \in DOMAIN disk.archives
    /\ \E i \in 1..2 :
          /\ pheap[packageList[i]].packageName = pkg.packageName
          /\ pheap[packageList[i + 1]].packageName = pkg.packageName
    /\ disk.archives[baseOf(packageFilename(pkg))]
           # disk.archives[packageFilename(pkg)]

----------------------------------------------------------------------------
(* Properties: failures of a build *)

\* endPackage has been called for an application that names no main module,
\* and has returned or raised.
ClosedWithoutMain ==
    /\ last.op = "endPackage" /\ pc = "idle" /\ hasCurrent
    /\ pkg.p3dApplication /\ pkg.mainModule = NoMain

\* C24: closing an application for which no main module is declared raises
\* PackagerError; no step of that endPackage call changes the install
\* directory, the contents index or the list of packages built, so no
\* archive appears at the output path.
NoMainModuleFails ==
    /\ []((last.op = "endPackage" /\ pc = "idle"
             /\ pkg.p3dApplication /\ pkg.mainModule = NoMain)
            => (hasCurrent /\ err = "PackagerError"))
    /\ [][ (last'.op = "endPackage" /\ pkg'.p3dApplication
             /\ pkg'.mainModule = NoMain /\ hasCurrent)
            => /\ disk' = disk
               /\ contents' = contents /\ contentsChanged' = contentsChanged
               /\ packageList' = packageList ]_vars

\* C24's case: the application app, with a file and no main module, was
\* closed; PackagerError was raised by installMultifile, after panda3d had
\* been required for it.
AppWithoutMainFailed ==
    /\ ClosedWithoutMain /\ err = "PackagerError"
    /\ files # << >> /\ requires # << >>
    /\ disk.archives = << >>

\* The files of the current package that are not excluded.
notExcluded == { i \in 1..Len(files) : ~Excluded(File(i)) }

\* The directory a solo package is installed in.
soloDir(p) == <<p.packageName>> \o opt(p.platform) \o opt(p.version)

SoloInstalled ==
    /\ Built /\ pkg.solo /\ Cardinality(notExcluded) = 1
    /\ getKey(PackageEntry(pkg.packageName, pkg.platform, pkg.version, TRUE,
                           Path(soloDir(pkg), <<"x">>), << >>))
           \in DOMAIN contents

\* The sources the package was told to take that do not exist.
missingSources == { f \in DOMAIN sourceFilenames : ~exists(f) }

\* A file() directive that names one file, which does not exist, in an open
\* package that does not have it yet.
NamesMissingFile ==
    /\ Idle /\ hasCurrent
    /\ last'.op = "file"
    /\ Len(last'.call.filenames) = 1 /\ last'.call.text = None
    /\ last'.call.executable = None /\ last'.call.newName = NoName
    /\ glob(last'.call.filenames[1]) = << >>
    /\ ~exists(last'.call.filenames[1])
    /\ last'.call.filenames[1] \notin DOMAIN sourceFilenames
    /\ getBasename(last'.call.filenames[1]) \notin skipFilenames

\* The first half of C26: a file() directive that names a source that does
\* not exist and gives no text logs the warning 'No such file', adds no file
\* to the package and raises nothing; the source is remembered.
MissingFileSkipped ==
    [][ NamesMissingFile =>
          /\ err' = None
          /\ files' = files /\ targetFilenames' = targetFilenames
          /\ \E w \in notify' : w.kind = "No such file"
          /\ last'.call.filenames[1] \in DOMAIN sourceFilenames' ]_vars

BuiltWithoutMissing ==
    /\ Built /\ ~pkg.solo
    /\ files # << >> /\ missingSources # {}

\* The second loop of installMultifile is at a config file that it will
\* hand to addPrcFile.
AtPrcFile ==
    /\ pc = "files" /\ idx <= Len(files)
    /\ ~File(idx).unprocessed /\ ~Excluded(File(idx))
    /\ getExtension(File(idx).newName) = "prc"

\* The implicit-dependency pass is at a file on which ldd fails.
AtLddFailure ==
    /\ InPass /\ idx <= Len(files)
    /\ File(idx).executable /\ ~Excluded(File(idx))
    /\ lddFails(File(idx).filename)

\* C27: when the sign command fails on a config file the build is aborted
\* with an exception: the archive is not moved to its output path, no
\* descriptor or import descriptor is written, the contents index is not
\* changed and the package is not built; when ldd fails on a file the pass
\* goes on with the next file, and a failed ldd never ends a build.
SignFailureFatal ==
    /\ [][ (AtPrcFile /\ settings.prcSignCommand = "sign-fails") =>
             /\ err' = "StandardError" /\ pc' = "idle" /\ hasCurrent'
             /\ disk' = disk
             /\ contents' = contents /\ contentsChanged' = contentsChanged
             /\ packageList' = packageList ]_vars
    /\ [][ AtLddFailure =>
             /\ err' = None /\ pc' = pc /\ idx' = idx + 1
             /\ files' = files /\ objs' = objs ]_vars
    /\ []((err = "StandardError" /\ last.op = "endPackage")
            => (hasCurrent /\ settings.prcSignCommand = "sign-fails"))

\* C27's case: closing a package with a config file ended in the exception
\* of the failed sign command, the package's archive not on disk.
SignFailed ==
    /\ last.op = "endPackage" /\ err = "StandardError" /\ pc = "idle"
    /\ \E i \in 1..Len(files) : getExtension(File(i).newName) = "prc"
    /\ packageFilename(pkg) \notin DOMAIN disk.archives

\* The other case: a package with a library on which ldd fails was built.
BuiltAfterLddFailure ==
    /\ Built /\ ~pkg.solo
    /\ \E i \in 1..Len(files) :
          File(i).executable /\ ~Excluded(File(i)) /\ lddFails(File(i).filename)

----------------------------------------------------------------------------
(* Properties: the life of a package *)

\* C28: at most one package is open at a time and each package is closed at
\* most once.  beginPackage while a package is open raises PackagerError and
\* leaves the current package as it is; endPackage with no package open
\* raises PackagerError; an endPackage that succeeds appends the package to
\* packageList, once, and leaves no package open; no other step opens or
\* closes a package or changes packageList, and a package on which
\* endPackage has been called is never at the caller's disposal again.
OneOpenPackage ==
    /\ [][ last'.op = "beginPackage" =>
             IF hasCurrent
             THEN /\ err' = "PackagerError" /\ hasCurrent'
                  /\ pkg' = pkg /\ files' = files /\ objs' = objs
                  /\ packageList' = packageList
             ELSE /\ err' = None /\ hasCurrent'
                  /\ pkg'.packageName = last'.packageName
                  /\ files' = << >> /\ packageList' = packageList ]_vars
    /\ [][ (Idle /\ ~hasCurrent /\ last'.op = "endPackage") =>
             /\ err' = "PackagerError" /\ ~hasCurrent'
             /\ packageList' = packageList /\ disk' = disk ]_vars
    /\ [][ (hasCurrent' # hasCurrent \/ packageList' # packageList) =>
             \/ ~hasCurrent /\ hasCurrent' /\ last'.op = "beginPackage"
                   /\ packageList' = packageList
             \/ /\ hasCurrent /\ ~hasCurrent' /\ last'.op = "endPackage"
                /\ err' = None /\ pc' = "idle"
                /\ packageList' = Append(packageList, Len(pheap'))
                /\ pheap'[Len(pheap')].packageName = pkg.packageName
                /\ Len(pheap') = Len(pheap) + 1 ]_vars
    /\ []((Idle /\ hasCurrent) => last.op # "endPackage")
    /\ [](\A i, j \in 1..Len(packageList) :
             packageList[i] = packageList[j] => i = j)

\* C28's case: beginPackage was called while a package with a file was open,
\* after another package had been built.
BeginWhileOpen ==
    /\ last.op = "beginPackage" /\ err = "PackagerError"
    /\ hasCurrent /\ files # << >> /\ Len(packageList) = 1

\* Another case: endPackage was called a second time after a build.
EndWithoutPackage ==
    /\ last.op = "endPackage" /\ err = "PackagerError"
    /\ ~hasCurrent /\ Len(packageList) = 2

----------------------------------------------------------------------------
(* Properties: PackFile *)

\* The target name a PackFile is made with: newName, or the source name.
givenName(a) == IF a.newName = NoName THEN a.filename ELSE a.newName

\* A PackFile has been made whose target name ends in .pz.
MadeWithPz == last.op = "PackFile" /\ getExtension(givenName(last.a)) = "pz"

\* The stored target name is the given one without its last extension.
PzStripped ==
    /\ last.file.newName.dir = givenName(last.a).dir
    /\ last.file.newName.parts
           = SubSeq(givenName(last.a).parts, 1, Len(givenName(last.a).parts) - 1)

\* C29, as the code has it: a PackFile whose target name ends in '.pz' is
\* stored under the name without that suffix, whatever the remaining
\* extension is; its compress is true whenever the caller passed none (also
\* for uncompressible and image extensions), and is the value the caller
\* passed otherwise.
PzCompressedByDefault ==
    MadeWithPz =>
        /\ PzStripped
        /\ last.a.compress = None => last.file.compress
        /\ last.a.compress # None => (last.file.compress <=> last.a.compress = "True")

\* C29 as stated: such a PackFile always has compress true and the suffix
\* removed, whatever compress value the caller passed.
PzAlwaysCompressed ==
    MadeWithPz => (PzStripped /\ last.file.compress)

\* C29's case: a PackFile was made for snd.ogg.pz with no compress value; it
\* is stored as snd.ogg and compressed, though ogg is an uncompressible
\* extension.
OggPzCompressed ==
    /\ MadeWithPz /\ last.a.compress = None
    /\ last.file.newName = FN("", <<"snd", "ogg">>)
    /\ getExtension(last.file.newName) \in uncompressibleExtensions
    /\ last.file.compress

\* A flag of the PackFile just made: the caller's value when one was given,
\* and the default otherwise.
flagIs(given, made, default) ==
    made <=> (IF given # None THEN given = "True" ELSE default)

\* The extension the flags are derived from: that of the stored target name.
madeExt == getExtension(last.file.newName)

NoOverrides ==
    /\ last.a.compress = None /\ last.a.executable = None
    /\ last.a.extract = None /\ last.a.platformSpecific = None
    /\ last.a.unprocessed = None

\* The flags other than compress, as C31 has them.
OtherFlagsDerived ==
    /\ flagIs(last.a.executable, last.file.executable,
              madeExt \in executableExtensions)
    /\ flagIs(last.a.extract, last.file.extract,
              last.file.executable \/ madeExt \in extractExtensions)
    /\ flagIs(last.a.platformSpecific, last.file.platformSpecific,
              last.file.executable \/ madeExt \in platformSpecificExtensions)
    /\ flagIs(last.a.unprocessed, last.file.unprocessed,
              last.file.executable \/ madeExt \in unprocessedExtensions)
    /\ (NoOverrides /\ last.file.executable) =>
           (last.file.extract /\ last.file.platformSpecific
              /\ last.file.unprocessed)

\* C31, as the code has it: each PackFile flag is the caller's value when
\* one is supplied and otherwise the default derived from the extension of
\* the target name without a '.pz' suffix: compress = the target name ended
\* in '.pz', or the extension is in neither the uncompressible nor the image
\* set; executable = extension in the executable set; extract,
\* platformSpecific and unprocessed = the effective executable flag or the
\* extension in the corresponding set.  With no overrides, executable
\* implies extract, platformSpecific and unprocessed.
FlagsDerivedAfterPz ==
    last.op = "PackFile" =>
        /\ flagIs(last.a.compress, last.file.compress,
                  \/ getExtension(givenName(last.a)) = "pz"
                  \/ /\ madeExt \notin uncompressibleExtensions
                     /\ madeExt \notin imageExtensions)
        /\ OtherFlagsDerived

\* C31 as stated: for every extension and every combination of overrides
\* the compress default is that the extension is in neither the
\* uncompressible nor the image set, and the other flags are as above.
FlagsDerived ==
    last.op = "PackFile" =>
        /\ flagIs(last.a.compress, last.file.compress,
                  /\ madeExt \notin uncompressibleExtensions
                  /\ madeExt \notin imageExtensions)
        /\ OtherFlagsDerived

\* C31's case: readme.txt made with executable = True and unprocessed =
\* False and nothing else: it is executable against its extension, extract
\* and platformSpecific follow the effective executable flag, unprocessed
\* keeps the caller's value, and compress has its default.
OverridesKept ==
    /\ last.op = "PackFile"
    /\ last.a.filename = FN("", <<"readme", "txt">>) /\ last.a.newName = NoName
    /\ last.a.executable = "True" /\ last.a.unprocessed = "False"
    /\ last.a.compress = None /\ last.a.extract = None
    /\ last.a.platformSpecific = None
    /\ last.file.executable /\ last.file.extract /\ last.file.platformSpecific
    /\ ~last.file.unprocessed /\ last.file.compress

\* A library made with no overrides has every flag but explicit set.
LibraryFlags ==
    /\ last.op = "PackFile" /\ NoOverrides
    /\ last.a.filename = FN("", <<"libfoo", "so", "pz">>)
    /\ last.a.newName = NoName
    /\ last.file.executable /\ last.file.extract /\ last.file.platformSpecific
    /\ last.file.unprocessed /\ last.file.compress

----------------------------------------------------------------------------
(* Properties: the platform of a package *)

\* C32: a package whose platform_specific config is False finishes with no
\* platform assigned, whatever directives (file, dir, module, freeze)
\* preceded the close.
NoPlatformWhenFalse ==
    (Built /\ pkg.platformSpecificConfig = "False") => pkg.platform = None

----------------------------------------------------------------------------
(* Properties: the packages of the run *)

\* The key endPackage would have filed a package under that the require
\* directive just made asks for: the name, the packager's platform and
\* the version asked for.
askedKey == <<last.names[1], Platform, last.kw.version>>

\* A require directive with a version has just been carried out for a
\* package that endPackage completed in this run with that name, platform
\* and version.
RequiredBuiltPackage ==
    /\ last.op = "require" /\ err = None /\ last.kw.hasVersion
    /\ \E i \in 1..Len(packageList) :
          /\ pheap[packageList[i]].packageName = askedKey[1]
          /\ pheap[packageList[i]].platform = askedKey[2]
          /\ pheap[packageList[i]].version = askedKey[3]

\* C33: a package completed by endPackage is in the packager's table, so a
\* later require for the same name, platform and version gets that same
\* Package object from the table, and no Package object is read from the
\* search path.
RequireFromTable ==
    RequiredBuiltPackage =>
        /\ \E i \in 1..Len(packageList) : requires = <<packageList[i]>>
        /\ Len(pheap) = Len(packageList)

----------------------------------------------------------------------------
(* Properties: a close() that raises *)

\* The step is one of endPackage on an open package in which close() raises.
CloseRaises ==
    hasCurrent /\ last'.op = "endPackage" /\ err = None /\ err' # None

\* The caller has caught the exception of an endPackage whose close() raised.
AfterFailedClose ==
    last.op = "caught" /\ last.from = "endPackage" /\ hasCurrent

\* C34: when Package.close() raises during endPackage, the package is
\* neither appended to packageList nor entered in packager.packages, and
\* currentPackage still refers to it; a following beginPackage raises
\* PackagerError and starts no package.
FailedPackageStaysOpen ==
    /\ [][ CloseRaises =>
              /\ packageList' = packageList /\ packages' = packages
              /\ \A k \in DOMAIN packages' : k[1] # pkg.packageName
              /\ pheap' = pheap
              /\ hasCurrent' /\ pkg'.packageName = pkg.packageName ]_vars
    /\ [][ (AfterFailedClose /\ last'.op = "beginPackage") =>
              /\ err' = "PackagerError"
              /\ hasCurrent' /\ pkg' = pkg /\ fileVars' = fileVars
              /\ packageList' = packageList /\ packages' = packages ]_vars

\* C34's case: the application app had no main module, close() raised, the
\* caller went on to begin the next package, and beginPackage raised: app
\* is still the current package and nothing has been built.
BeginAfterFailedClose ==
    /\ last.op = "beginPackage" /\ last.packageName = "next"
    /\ err = "PackagerError"
    /\ hasCurrent /\ pkg.packageName = "app" /\ pkg.mainModule = NoMain
    /\ packageList = << >> /\ \A k \in DOMAIN packages : k[1] # "app"

\* The other way: the package was built, and the next one is begun.
BeginAfterBuild ==
    /\ last.op = "beginPackage" /\ last.packageName = "next" /\ err = None
    /\ hasCurrent /\ pkg.packageName = "next" /\ Len(packageList) = 1

----------------------------------------------------------------------------
(* Properties: directives outside of a package *)

DirectiveNames ==
    { "config", "require", "module", "renameModule", "excludeModule",
      "mainModule", "freeze", "file", "exclude", "dir", "requirePackage" }

\* C35: every directive (config, require, module, renameModule,
\* excludeModule, mainModule, freeze, file, exclude, dir and requirePackage)
\* invoked while no package is open raises OutsideOfPackageError and
\* changes nothing: no package is created, and the Package objects, the
\* table of packages, the list of packages built, the contents index and
\* the install directory are as they were.
OutsideChangesNothing ==
    [][ (pc = "idle" /\ err = None /\ ~hasCurrent
           /\ last'.op \in DirectiveNames) =>
          /\ err' = "OutsideOfPackageError"
          /\ UNCHANGED <<hasCurrent, pkg, fileVars, excludedFilenames, reqVars,
                         modules, buildVars, packagerVars>> ]_vars

\* The directive op has raised OutsideOfPackageError after a package was
\* built.
RaisedOutside(op) ==
    /\ last.op = op /\ err = "OutsideOfPackageError"
    /\ ~hasCurrent /\ Len(packageList) = 1

\* C35's case: a require directive given after the package was ended.
RequireOutside == RaisedOutside("require")

----------------------------------------------------------------------------
(* Properties: file directives with several names *)

\* The files one filename argument of a file directive stands for: those
\* its glob matches, or the name itself when it matches none.
argFiles(f) ==
    LET newExt  == remapExtension(getExtension(f))
        renamed == IF newExt = "-" THEN f
                   ELSE IF newExt = "" THEN stripExtension(f)
                   ELSE setExtension(f, newExt)
    IN  IF glob(renamed) = << >> THEN <<renamed>> ELSE glob(renamed)

RECURSIVE countFiles(_, _)
countFiles(c, i) ==
    IF i > Len(c.filenames) THEN 0
    ELSE Len(argFiles(c.filenames[i])) + countFiles(c, i + 1)

\* The call has a target name or text.
OneTarget(c) == c.newName # NoName \/ (c.text # None /\ c.text # "")

\* C36: addFiles called with newName (or with text) and a filename list
\* that expands to a number of files other than one raises PackagerError
\* before any file is added: the package's files, sourceFilenames and
\* targetFilenames are unchanged.
OneTargetOneFile ==
    [][ (hasCurrent /\ pc = "idle" /\ err = None /\ last'.op = "file"
           /\ OneTarget(last'.call) /\ countFiles(last'.call, 1) # 1) =>
          /\ err' = "PackagerError"
          /\ fileVars' = fileVars ]_vars

\* C36's case: a package with files was given file('*.txt', newName =
\* 'all.txt'), which matches two files: the call raised and the package has
\* the files it had.
TwoFilesOneTarget ==
    /\ last.op = "file" /\ err = "PackagerError" /\ hasCurrent
    /\ last.call.filenames = <<FN("", <<"*", "txt">>)>>
    /\ last.call.newName = FN("", <<"all", "txt">>)
    /\ Len(objs) = last.before /\ Len(files) > 0

\* Text given for two names raised as well.
TextForTwoFiles ==
    /\ last.op = "file" /\ err = "PackagerError" /\ hasCurrent
    /\ last.call.text = "hello" /\ Len(last.call.filenames) = 2
    /\ Len(objs) = last.before

\* With one file the target name is accepted.
OneFileOneTarget ==
    /\ last.op = "file" /\ err = None /\ hasCurrent
    /\ last.call.newName = FN("", <<"sub", "txt">>)
    /\ \E i \in 1..Len(files) :
          File(i).newName = FN("", <<"sub", "txt">>) /\ files[i] > last.before

\* The arguments of the file directive just made that stand for the file.
argsOf(file) ==
    { i \in 1..Len(last.call.filenames) :
        \E k \in 1..Len(argFiles(last.call.filenames[i])) :
            makeCanonical(argFiles(last.call.filenames[i])[k]) = file.filename }

\* C38: the explicit and executable flags of each file added by one file
\* directive depend only on that file's own filename argument: the file is
\* explicit unless its own argument matched more than one file, and it is
\* executable only when its own argument ends in '.exe' or its own
\* extension is an executable one.
FlagsFromOwnArgument ==
    (last.op = "file" /\ err = None /\ hasCurrent
       /\ last.call.executable = None) =>
        \A o \in (last.before + 1)..Len(objs) : \A i \in argsOf(objs[o]) :
            /\ objs[o].explicit <=> Len(argFiles(last.call.filenames[i])) <= 1
            /\ objs[o].executable <=>
                  \/ getExtension(last.call.filenames[i]) = "exe"
                  \/ getExtension(objs[o].newName) \in executableExtensions

----------------------------------------------------------------------------
(* Properties: the keywords of require *)

\* C37: do_require accepts the keywords 'version' and 'host' in any
\* combination (neither, either, or both) and resolves the named packages
\* with the values given, so it raises neither KeyError nor TypeError for
\* them; for any other keyword it raises TypeError and requires nothing.
RequireKeywords ==
    (last.op = "require" /\ hasCurrent /\ pkg.packageName = "tools") =>
        IF last.kw.other
        THEN err = "TypeError" /\ requires = << >>
        ELSE err \notin {"KeyError", "TypeError"}

----------------------------------------------------------------------------
(* Properties: directories *)

\* The files that the do_dir call just made has added.
addedByDir == { i \in 1..Len(files) : files[i] > last.before }

\* C30: after do_dir(dirname, unprocessed = True) on a directory hierarchy,
\* every file the call added, at every depth, is marked unprocessed, so a
\* bam file among them is packed exactly as it is.
DirUnprocessedAtEveryDepth ==
    (last.op = "dir" /\ last.unprocessed = "True" /\ err = None) =>
        \A i \in addedByDir : File(i).unprocessed

=============================================================================
